---- MODULE Spec2Model ----
(***************************************************************************)
(* Model of the chandas recognition pipeline:                              *)
(*   chandas/syllabize.py      get_syllables, get_syllable_weight,         *)
(*                             to_weight_list                              *)
(*   chandas/__init__.py       to_pattern_lines                            *)
(*   rl_env/meter_verifier.py  MeterVerifier.get_pattern_from_text         *)
(*   chandas/svat/data/metrical_data.py   the metre database               *)
(*                                                                         *)
(* A string is a sequence of characters.  A Devanagari character is        *)
(* represented by one token per character class of the regular             *)
(* expressions of syllabize.py, because those expressions inspect nothing  *)
(* but the class of a character:                                           *)
(*   "a"  the independent vowel a (no vowel sign)                          *)
(*   "u"  another short independent vowel   "A"  a long independent vowel  *)
(*   "k"  a consonant                                                      *)
(*   "i"  a short vowel sign                "I"  a long vowel sign         *)
(*   "M"  anusvara / visarga                "cb" candrabindu               *)
(*   "ac" an accent mark   "nk" nukta   "h" virama   "om" the OM sign      *)
(*   "sp" a space   "x" any other character (punctuation, danda, digits)   *)
(*   "nl" a line feed                                                      *)
(***************************************************************************)
EXTENDS Integers, Sequences, FiniteSets, TLC

\* ------------------------------------------------------------------ bounds
MaxLen == 3          \* longest one-line input over the full alphabet
MaxText == 4         \* longest multi-line input over the batch alphabet
MaxPada == 1         \* longest pada pattern of a generated catalog entry
MaxMetres == 2       \* most entries in a catalog
MaxConc == 2         \* longest text of a concurrent call

\* ------------------------------------------------- character classes
PATTERN_OM == {"om"}
PATTERN_GURU_INDEPENDENT_VOWEL == {"A"}
PATTERN_INDEPENDENT_VOWEL == {"a", "u", "A"}
PATTERN_GURU_DEPENDENT_VOWEL == {"I"}
PATTERN_DEPENDENT_VOWEL == {"i", "I"}
PATTERN_VYANJANA == {"k"}
PATTERN_GURU_YOGAVAAHA == {"M"}
PATTERN_YOGAVAAHA == {"M", "cb"}
PATTERN_ACCENT == {"ac"}
PATTERN_CONSONANT_MODIFIER == {"nk", "h"}

Alphabet ==
  {"a", "u", "A", "k", "i", "I", "M", "cb", "ac", "nk", "h", "om", "sp", "x"}

BatchAlphabet == {"k", "I", "h", "x", "sp", "nl"}

\* ------------------------------------------------- sequence helpers
SeqsUpTo(S, n) == UNION {[1..m -> S] : m \in 0..n}

SubSeqFrom(s, i) == SubSeq(s, i, Len(s))

RECURSIVE Flatten(_)
Flatten(ss) == IF ss = <<>> THEN <<>> ELSE Head(ss) \o Flatten(Tail(ss))

\* regex.sub("[OM]", "ओम्", s)                          (syllabize.py:52)
RECURSIVE ExpandOm(_)
ExpandOm(s) ==
  IF s = <<>> THEN <<>>
  ELSE (IF Head(s) \in PATTERN_OM THEN <<"A", "k", "h">> ELSE <<Head(s)>>)
       \o ExpandOm(Tail(s))

\* regex.sub("([^...])", "", s): drop every unsupported character (:53)
SupportedChars ==
  PATTERN_INDEPENDENT_VOWEL \cup PATTERN_VYANJANA \cup PATTERN_DEPENDENT_VOWEL
  \cup PATTERN_YOGAVAAHA \cup PATTERN_ACCENT \cup PATTERN_CONSONANT_MODIFIER

RemoveUnsupported(s) == SelectSeq(s, LAMBDA c : c \in SupportedChars)

\* s.replace(" ", "")                                    (syllabize.py:54)
RemoveSpaces(s) == SelectSeq(s, LAMBDA c : c # "sp")

\* length of a match of PATTERN_VYANJANA_WITHOUT_VOWEL (consonant, optional
\* nukta, virama) at position i of s; 0 when there is none
DeadAt(s, i) ==
  IF i <= Len(s) /\ s[i] \in PATTERN_VYANJANA
  THEN IF i + 1 <= Len(s) /\ s[i + 1] = "h" THEN 2
       ELSE IF i + 2 <= Len(s) /\ s[i + 1] = "nk" /\ s[i + 2] = "h" THEN 3
       ELSE 0
  ELSE 0

\* the vowel sign of an independent vowel; the vowel a has none
vowel_to_mark == [c \in PATTERN_INDEPENDENT_VOWEL |->
                    IF c = "a" THEN <<>> ELSE IF c = "u" THEN <<"i">> ELSE <<"I">>]

\* do_vyanjana_svara_join applied by regex.sub to every dead consonant that
\* is directly followed by an independent vowel           (syllabize.py:55)
RECURSIVE VyanjanaSvaraJoin(_)
VyanjanaSvaraJoin(s) ==
  IF s = <<>> THEN <<>>
  ELSE LET d == DeadAt(s, 1) IN
       IF d > 0 /\ d + 1 <= Len(s) /\ s[d + 1] \in PATTERN_INDEPENDENT_VOWEL
       THEN SubSeq(s, 1, d - 1) \o vowel_to_mark[s[d + 1]]
            \o VyanjanaSvaraJoin(SubSeqFrom(s, d + 2))
       ELSE <<Head(s)>> \o VyanjanaSvaraJoin(Tail(s))

\* the cleaned phrase of get_syllables                (syllabize.py:51-55)
CleanPhrase(s) == VyanjanaSvaraJoin(RemoveSpaces(RemoveUnsupported(ExpandOm(s))))

\* ------------------------------------------------- the syllable regex
\* position after the longest run of characters of class C starting at i
RECURSIVE SkipClass(_, _, _)
SkipClass(s, i, C) ==
  IF i <= Len(s) /\ s[i] \in C THEN SkipClass(s, i + 1, C) ELSE i

\* position after the greedy onset (dead consonant)* starting at i
RECURSIVE OnsetEnd(_, _)
OnsetEnd(s, i) ==
  IF DeadAt(s, i) > 0 THEN OnsetEnd(s, i + DeadAt(s, i)) ELSE i

\* the syllable regex without its last group
CodaEnd_no_coda(s, i) == i

\* position after the greedy coda (dead consonant, optional candrabindu)*
RECURSIVE CodaEnd(_, _)
CodaEnd(s, i) ==
  IF DeadAt(s, i) > 0
  THEN LET j == i + DeadAt(s, i) IN
       CodaEnd(s, IF j <= Len(s) /\ s[j] = "cb" THEN j + 1 ELSE j)
  ELSE i

\* position after  unit nukta? signs* yogavahas* accents*  with the unit at u
AfterMarks(s, u) ==
  LET n == IF u + 1 <= Len(s) /\ s[u + 1] = "nk" THEN u + 2 ELSE u + 1
      d == SkipClass(s, n, PATTERN_DEPENDENT_VOWEL)
      y == SkipClass(s, d, PATTERN_YOGAVAAHA)
  IN SkipClass(s, y, PATTERN_ACCENT)

\* position of the vowel-bearing unit of the match at the start of s, 0 when
\* the regex does not match: the onset is greedy and gives back its last
\* dead consonant when no unit follows it
UnitPos(s) ==
  LET p == OnsetEnd(s, 1) IN
  IF p <= Len(s) /\ s[p] \in (PATTERN_INDEPENDENT_VOWEL \cup PATTERN_VYANJANA)
  THEN p
  ELSE IF p > 1 THEN (IF s[p - 2] = "nk" THEN p - 3 ELSE p - 2)
  ELSE 0

\* length of regex.match(syllable regex, s).group(0); 0 for no match (:59)
MatchLen(s) ==
  IF UnitPos(s) = 0 THEN 0 ELSE CodaEnd(s, AfterMarks(s, UnitPos(s))) - 1

\* replace() without its count argument: every occurrence is deleted
RECURSIVE ReplaceAll(_, _)
ReplaceAll(s, m) ==
  IF Len(s) < Len(m) \/ m = <<>> THEN s
  ELSE IF SubSeq(s, 1, Len(m)) = m THEN ReplaceAll(SubSeqFrom(s, Len(m) + 1), m)
  ELSE <<Head(s)>> \o ReplaceAll(Tail(s), m)

\* cleaned_phrase.replace(match.group(0), "", 1): delete the first
\* occurrence of m in s                                   (syllabize.py:65)
RECURSIVE ReplaceFirst(_, _)
ReplaceFirst(s, m) ==
  IF Len(s) < Len(m) THEN s
  ELSE IF SubSeq(s, 1, Len(m)) = m THEN SubSeqFrom(s, Len(m) + 1)
  ELSE <<Head(s)>> \o ReplaceFirst(Tail(s), m)

\* ------------------------------------------------- get_syllable_weight
\* first findall: a long vowel, a long vowel sign or a guru yogavaha (:73)
HasGuruChar(syllable) ==
  \E i \in 1..Len(syllable) :
    syllable[i] \in (PATTERN_GURU_INDEPENDENT_VOWEL
                     \cup PATTERN_GURU_DEPENDENT_VOWEL
                     \cup PATTERN_GURU_YOGAVAAHA)

\* second findall: a unit, its marks, then at least one dead consonant (:75)
HasCoda(syllable) ==
  \E i \in 1..Len(syllable) :
    /\ syllable[i] \in (PATTERN_INDEPENDENT_VOWEL \cup PATTERN_VYANJANA)
    /\ DeadAt(syllable, AfterMarks(syllable, i)) > 0

\* the weight without the closed-syllable rule
get_syllable_weight_no_coda(syllable) ==
  IF HasGuruChar(syllable) THEN <<"G">> ELSE <<"L">>

\* the weight with the final branch falling through to an empty result
get_syllable_weight_no_else(syllable) ==
  IF HasGuruChar(syllable) THEN <<"G">>
  ELSE IF HasCoda(syllable) THEN <<"G">>
  ELSE <<>>

get_syllable_weight(syllable) ==
  IF HasGuruChar(syllable) THEN <<"G">>
  ELSE IF HasCoda(syllable) THEN <<"G">>
  ELSE <<"L">>

\* ------------------------------------------------- line handling
\* text.split('\n')                 (meter_verifier.py:75, identify_test.py:32)
RECURSIVE Split(_)
Split(t) ==
  IF \A i \in 1..Len(t) : t[i] # "nl" THEN <<t>>
  ELSE LET i == CHOOSE j \in 1..Len(t) :
                  t[j] = "nl" /\ \A m \in 1..(j - 1) : t[m] # "nl"
       IN <<SubSeq(t, 1, i - 1)>> \o Split(SubSeqFrom(t, i + 1))

\* line.strip(): drop leading and trailing white space
RECURSIVE LStrip(_)
LStrip(s) == IF s # <<>> /\ Head(s) = "sp" THEN LStrip(Tail(s)) ELSE s

RECURSIVE RStrip(_)
RStrip(s) ==
  IF s # <<>> /\ s[Len(s)] = "sp" THEN RStrip(SubSeq(s, 1, Len(s) - 1)) ELSE s

Strip(s) == RStrip(LStrip(s))

\* [line.strip() for line in text.split('\n') if line.strip()]
RECURSIVE StripNonBlank(_)
StripNonBlank(ls) ==
  IF ls = <<>> THEN <<>>
  ELSE (IF Strip(Head(ls)) # <<>> THEN <<Strip(Head(ls))>> ELSE <<>>)
       \o StripNonBlank(Tail(ls))

\* ''.join(weights)
Join(ws) == Flatten(ws)

\* ------------------------------------------------- whole calls
\* get_syllables as a function of the cleaned phrase: whether the loop
\* consumes it whole, and the syllables it returns
RECURSIVE Parsable(_)
Parsable(cp) ==
  \/ cp = <<>>
  \/ MatchLen(cp) > 0 /\ Parsable(SubSeqFrom(cp, MatchLen(cp) + 1))

RECURSIVE SyllablesOf(_)
SyllablesOf(cp) ==
  IF cp = <<>> \/ MatchLen(cp) = 0 THEN <<>>
  ELSE <<SubSeq(cp, 1, MatchLen(cp))>> \o SyllablesOf(SubSeqFrom(cp, MatchLen(cp) + 1))

RECURSIVE WeightsOf(_)
WeightsOf(syls) ==
  IF syls = <<>> THEN <<>>
  ELSE get_syllable_weight(Head(syls)) \o WeightsOf(Tail(syls))

PatternOf(line) == WeightsOf(SyllablesOf(CleanPhrase(line)))

LineParsable(line) == Parsable(CleanPhrase(line))

\* the patterns of the lines ls in order, the empty ones kept or dropped
RECURSIVE PatternsOf(_, _)
PatternsOf(ls, keepEmpty) ==
  IF ls = <<>> THEN <<>>
  ELSE (IF keepEmpty \/ PatternOf(Head(ls)) # <<>>
        THEN <<PatternOf(Head(ls))>> ELSE <<>>)
       \o PatternsOf(Tail(ls), keepEmpty)

\* ================================================= the metre database
\* A pattern is a string over "L" and "G"; catalog descriptions may also
\* hold "sp" (space), "dash" (em or en dash), "." and "4".
EmptyMap == [x \in {} |-> {}]

ButLast(s) == IF s = <<>> THEN <<>> ELSE SubSeq(s, 1, Len(s) - 1)

\* _RemoveChars(input_string, chars)
RemoveChars(input_string, chars) == SelectSeq(input_string, LAMBDA c : c \notin chars)

Separators == {"sp", "dash"}

IsLG(s) == \A i \in 1..Len(s) : s[i] \in {"L", "G"}

IsLGDot(s) == \A i \in 1..Len(s) : s[i] \in {"L", "G", "."}

\* _CleanUpPattern: the value returned, and whether its assertion passes
CleanUpPattern(pattern) == RemoveChars(pattern, Separators)

CleanUpPatternOk(pattern) == IsLGDot(CleanUpPattern(pattern))

\* _CleanUpSimpleRegex: the value returned, and whether its assertion passes
CleanUpSimpleRegex(regex) == RemoveChars(RemoveChars(regex, Separators), {"4"})

CleanUpSimpleRegexOk(regex) == IsLGDot(CleanUpSimpleRegex(regex))

\* [clean[:-1] + 'G', clean[:-1] + 'L']
EndVariants(clean) == <<ButLast(clean) \o <<"G">>, ButLast(clean) \o <<"L">>>>

\* itertools.product of lists of strings, each tuple concatenated, in the
\* order itertools yields them (the last list varies fastest)
Product2(A, B) ==
  [n \in 1..(Len(A) * Len(B)) |->
     A[((n - 1) \div Len(B)) + 1] \o B[((n - 1) % Len(B)) + 1]]

Product4(A, B, C, D) == Product2(Product2(A, B), Product2(C, D))

\* _AddFullPattern: a pattern that is already a key keeps its first metre
AddFullPattern(kfp, full_pattern, metre_name) ==
  IF full_pattern \in DOMAIN kfp THEN kfp
  ELSE [q \in DOMAIN kfp \cup {full_pattern} |->
          IF q = full_pattern THEN {metre_name} ELSE kfp[q]]

\* _AddHalfPattern and _AddPadaPattern:
\* d.setdefault(pattern, {}).setdefault(metre_name, set()).update(which)
AddRolePattern(d, pattern, metre_name, which) ==
  LET inner == IF pattern \in DOMAIN d THEN d[pattern] ELSE EmptyMap
      old == IF metre_name \in DOMAIN inner THEN inner[metre_name] ELSE {}
      inner2 == [m \in DOMAIN inner \cup {metre_name} |->
                   IF m = metre_name THEN old \cup which ELSE inner[m]]
  IN [q \in DOMAIN d \cup {pattern} |-> IF q = pattern THEN inner2 ELSE d[q]]

\* for p in ps: _AddFullPattern(p, metre_name)
RECURSIVE AddFullPatterns(_, _, _)
AddFullPatterns(kfp, ps, metre_name) ==
  IF ps = <<>> THEN kfp
  ELSE AddFullPatterns(AddFullPattern(kfp, Head(ps), metre_name), Tail(ps), metre_name)

\* for p in ps: _AddHalfPattern / _AddPadaPattern(p, metre_name, which)
RECURSIVE AddRolePatterns(_, _, _, _)
AddRolePatterns(d, ps, metre_name, which) ==
  IF ps = <<>> THEN d
  ELSE AddRolePatterns(AddRolePattern(d, Head(ps), metre_name, which),
                       Tail(ps), metre_name, which)

AddPatternForMetre_overwrite(pfm, metre_name, pada_patterns) ==
  [m \in DOMAIN pfm \cup {metre_name} |->
     IF m = metre_name THEN pada_patterns ELSE pfm[m]]

\* _AddPatternForMetre: the first pattern stored for a name stays
AddPatternForMetre(pfm, metre_name, pada_patterns) ==
  IF metre_name \in DOMAIN pfm THEN pfm
  ELSE [m \in DOMAIN pfm \cup {metre_name} |->
          IF m = metre_name THEN pada_patterns ELSE pfm[m]]

\* all_data[name] = value
SetItem(d, key, value) ==
  [k \in DOMAIN d \cup {key} |-> IF k = key THEN value ELSE d[k]]

\* A compiled regex is held as the sequence of its factors, each factor the
\* set of strings it can match: "L" is {"L"}, "." is {"L", "G"}, and a
\* group (a|b|c) is {a, b, c}.
Dot == {<<"L">>, <<"G">>}

\* the factors of a simple regex, a string over L, G and "."
SimpleRegex(str) == [i \in 1..Len(str) |-> IF str[i] = "." THEN Dot ELSE {<<str[i]>>}]

\* ''.join('(%s)' % s for s in pada_regexes) for simple pada regexes
JoinRegexes(rs) == Flatten([i \in 1..Len(rs) |-> SimpleRegex(rs[i])])

\* re.compile('^' + regex + '$').match(s)
RECURSIVE RegexMatches(_, _)
RegexMatches(regex, s) ==
  IF regex = <<>> THEN s = <<>>
  ELSE \E alt \in Head(regex) :
         /\ Len(alt) <= Len(s)
         /\ SubSeq(s, 1, Len(alt)) = alt
         /\ RegexMatches(Tail(regex), SubSeqFrom(s, Len(alt) + 1))

AnustupName == "Anustup (Sloka)"

regex_ac == <<".", ".", ".", ".", "L", "G", "G", ".">>
regex_bd_as_ac == <<".", ".", ".", ".", "L", "G", "G", ".">>

regex_bd == <<".", ".", ".", ".", "L", "G", "L", ".">>
any_pada_as_ac == <<".", ".", ".", ".", "L", "G", "G", ".">>

any_pada == <<".", ".", ".", ".", ".", ".", ".", ".">>

\* _AddAnustup: the entries it appends to the three regex lists
AnustupFull == <<[regex |-> JoinRegexes(<<regex_ac, regex_bd, regex_ac, regex_bd>>),
                  metre |-> AnustupName]>>

AnustupHalf == <<[regex |-> JoinRegexes(<<regex_ac, regex_bd>>),
                  metre |-> AnustupName, which |-> {1, 2}]>>

AnustupPada == <<[regex |-> SimpleRegex(regex_ac), metre |-> AnustupName, which |-> {1, 3}],
                 [regex |-> SimpleRegex(regex_bd), metre |-> AnustupName, which |-> {2, 4}]>>

\* _AddAnustupExamples: seven more full-verse regexes
AnustupExamplePadas ==
  << <<<<"L","G","L","G","L","L","L","G">>, regex_bd, regex_ac, regex_bd>>,
     <<<<"L","G","L","G","G","G","G","G">>, regex_bd, regex_ac, regex_bd>>,
     <<regex_ac, regex_bd, <<"L","G","L","G","G","G","G","G">>, regex_bd>>,
     <<<<"G","L","G","G","L","L","L","G">>, regex_bd, regex_ac, regex_bd>>,
     <<any_pada, regex_bd, regex_ac, regex_bd>>,
     <<regex_ac, regex_bd, any_pada, regex_bd>>,
     <<any_pada, regex_bd, any_pada, regex_bd>> >>

\* _AddMetreRegex(metre_name, pada_regexes) with simple=True
MetreRegex(metre_name, pada_regexes) ==
  [regex |-> JoinRegexes([i \in 1..4 |-> CleanUpSimpleRegex(pada_regexes[i])]),
   metre |-> metre_name]

AnustupExamples ==
  [i \in 1..Len(AnustupExamplePadas) |-> MetreRegex(AnustupName, AnustupExamplePadas[i])]

\* _AddAryaFamilyRegex: the gana factors
odd_ganas == {<<"G","G">>, <<"L","L","G">>, <<"G","L","L">>, <<"L","L","L","L">>}
even_ganas == odd_ganas \cup {<<"L","G","L">>}
pada_12_re == <<odd_ganas, even_ganas, odd_ganas>>
pada_15_re == <<even_ganas, odd_ganas, {<<"L">>}, odd_ganas, Dot>>
pada_18_re == <<even_ganas, odd_ganas, {<<"L","L","L","L">>, <<"L","G","L">>}, odd_ganas, Dot>>
pada_20_re == <<even_ganas, odd_ganas, {<<"L","L","L","L">>, <<"L","G","L">>}, odd_ganas,
                even_ganas \cup {<<"G","L">>, <<"L","L","L">>}>>

\* _MatraCount: 2 for each G, 1 for each L
RECURSIVE MatraCount(_)
MatraCount(pattern) ==
  IF pattern = <<>> THEN 0
  ELSE (IF Head(pattern) = "G" THEN 2 ELSE 1) + MatraCount(Tail(pattern))

\* _patterns_memo after _PatternsOfLength(n): the entry for k morae, at
\* index k + 1, is the entry for k - 1 with L added and that for k - 2
\* with G added
RECURSIVE patterns_memo(_)
patterns_memo(n) ==
  IF n <= 1 THEN <<{<<>>}, {<<"L">>}>>
  ELSE CHOOSE memo \in {Append(prev, {Append(p, "L") : p \in prev[n]}
                                      \cup {Append(p, "G") : p \in prev[n - 1]})
                          : prev \in {patterns_memo(n - 1)}} : TRUE

PatternsOfLength(n) == patterns_memo(n)[n + 1]

\* the loose patterns without those of n - 1 morae
LoosePatternsOfLength_exact(n) == PatternsOfLength(n)

\* _LoosePatternsOfLength(n): the patterns of n morae and those of n - 1
\* morae that end in L
LoosePatternsOfLength(n) ==
  PatternsOfLength(n) \cup {p \in PatternsOfLength(n - 1) : p # <<>> /\ p[Len(p)] = "L"}

\* the regex registered as Arya (loose schema): four groups, each the
\* alternation of the loose patterns of 12, 18, 12 and 15 morae
AryaLoose ==
  <<LoosePatternsOfLength(12), LoosePatternsOfLength(18),
    LoosePatternsOfLength(12), LoosePatternsOfLength(15)>>

\* The five gana regexes of _AddAryaFamilyRegex.  Its sixth, AryaLoose,
\* matches only verses of 53 to 57 morae: the verses of the model have at
\* most 49, and the regex, with its thousands of alternatives, is not held
\* in known_full_regexes.
AryaFamilyStrict ==
  <<[regex |-> pada_12_re \o pada_18_re \o pada_12_re \o pada_15_re, metre |-> "Arya"],
    [regex |-> pada_12_re \o pada_18_re \o pada_12_re \o pada_18_re, metre |-> "Giti"],
    [regex |-> pada_12_re \o pada_15_re \o pada_12_re \o pada_15_re, metre |-> "Upagiti"],
    [regex |-> pada_12_re \o pada_15_re \o pada_12_re \o pada_18_re, metre |-> "Udgiti"],
    [regex |-> pada_12_re \o pada_20_re \o pada_12_re \o pada_20_re, metre |-> "Aryagiti"]>>

\* ------------------------------------------------- catalog entries
\* An entry of the list jsonToPy returns: a name and a description, which
\* is one string (kind "str") or a list of strings (kind "list").
Names == {"m1", "m2", "m3", "m4"}

LGStrings(n) == UNION {[1..m -> {"L", "G"}] : m \in 0..n}

GeneratedEntries ==
  {[name |-> "m1", kind |-> "str", description |-> <<d>>] : d \in LGStrings(MaxPada)}

ChosenEntries ==
  { [name |-> "m2", kind |-> "str", description |-> <<<<"G">>>>],
    [name |-> "m1", kind |-> "str", description |-> <<<<"L", "4", ".">>>>],
    [name |-> "m3", kind |-> "list",
     description |-> <<<<"L", "G">>, <<"L", "dash", "G">>>>],
    [name |-> "m4", kind |-> "list",
     description |-> <<<<"L", "G">>, <<"L", "sp", "G">>, <<"L">>, <<"L", "G">>>>],
    [name |-> "m4", kind |-> "list",
     description |-> <<<<"L", ".">>, <<"L", "L">>, <<"L", "G">>, <<"L", "L">>>>],
    [name |-> "m2", kind |-> "list",
     description |-> <<<<"L">>, <<"G">>, <<"L">>>>],
    [name |-> "m2", kind |-> "list",
     description |-> <<<<"L", "G">>, <<"L", "G">>>>],
    [name |-> "m3", kind |-> "list",
     description |-> <<<<"L", "G">>, <<"L", "L">>, <<"L">>, <<"L", "L">>>>],
    [name |-> "Indravajra", kind |-> "str", description |-> <<<<"L", "G">>>>] }

Entries == GeneratedEntries \cup ChosenEntries

\* the classification of InitializeData
Samatva(e) ==
  IF e.kind = "list"
  THEN (IF Len(e.description) = 2 THEN "ardhasama" ELSE "visama")
  ELSE "sama"

RegexOrPattern(e) ==
  IF e.kind = "list" THEN "pattern"
  ELSE IF IsLG(RemoveChars(e.description[1], Separators)) THEN "pattern"
  ELSE "regex"

\* the assertions an entry has to pass on its way through InitializeData
\* and the function it is dispatched to
EntryPasses(e) ==
  IF e.kind = "list"
  THEN /\ Len(e.description) \in {2, 4}
       /\ \A i \in 1..Len(e.description) : CleanUpPatternOk(e.description[i])
       /\ Len(e.description) = 2 => IsLG(CleanUpPattern(e.description[1]))
  ELSE IF RegexOrPattern(e) = "pattern" THEN CleanUpPatternOk(e.description[1])
  ELSE CleanUpSimpleRegexOk(e.description[1])

\* ------------------------------------------------- inputs
\* the phrase of the docstring of get_syllables, bi k-ra ma me ro nA ma ho,
\* each character written by its class
Bikrama ==
  <<"k", "i", "k", "h", "k", "k", "k", "I", "k", "I", "k", "I", "k", "k", "I">>

\* phrases in which a word that ends in a dead consonant is followed by a
\* word that begins with a vowel
SandhiPhrases ==
  { <<"k", "k", "h", "A">>, <<"k", "k", "h", "sp", "a", "k">>,
    <<"a", "k", "nk", "h", "u">>, <<"k", "I", "k", "h", "k", "h", "sp", "u", "M">>,
    <<"k", "k", "h", "x", "a", "nl", "A", "k", "h", "a">>,
    <<"a", "k", "h", "a", "h", "u">> }

Texts == SeqsUpTo(Alphabet, MaxLen) \cup SeqsUpTo(BatchAlphabet, MaxText)
         \cup {Bikrama} \cup SandhiPhrases

Builders == {"to_pattern_lines", "get_pattern_from_text"}

NoMessage == [input |-> <<>>, remaining |-> <<>>]

\* ------------------------------------------------- state
VARIABLES
  fn,              \* the pattern builder that was called
  text,            \* the text the caller holds
  lines,           \* the lines the builder iterates over
  idx,             \* index of the line being processed
  pc,              \* position of the call
  in_string,       \* get_syllables: its argument
  cleaned_phrase,  \* get_syllables: text not yet consumed
  syllables,       \* get_syllables: syllables found so far
  weights,         \* to_weight_list: weights computed so far
  patterns,        \* the builder's list of patterns
  message,         \* the message of the ValueError raised, if any
  known_full_patterns,   \* metrical_data: full-verse pattern -> metres
  known_full_regexes,    \* metrical_data: list of (regex, metre)
  known_half_patterns,   \* metrical_data: half pattern -> metre -> halves
  known_half_regexes,    \* metrical_data: list of (regex, metre, halves)
  known_pada_patterns,   \* metrical_data: pada pattern -> metre -> padas
  known_pada_regexes,    \* metrical_data: list of (regex, metre, padas)
  pattern_for_metre,     \* metrical_data: metre -> its four pada patterns
  all_data,              \* metrical_data: metre -> (samatva, kind, description)
  sources,               \* the (name, value) pairs of the catalog files, in order
  vrtta_data,            \* InitializeData: the catalog entries being loaded
  di,                    \* InitializeData: index of the next entry
  dpc,                   \* start, load, ready or failed; identified after a query
  id_input,              \* the pattern lines last handed to the identifier
  id_result,             \* the result last returned by the identifier
  answer,                \* the value last returned by GetPattern or HtmlDescription
  calls,                 \* concurrent calls of to_pattern_lines: thread -> its locals
  file_data,             \* catalog file name -> what the file holds
  file_i,                \* InitializeData: index of the catalog file being read
  open_files,            \* the catalog files whose file object is open
  fpc,                   \* position of the reading of the catalog files
  num_tasks,             \* generate_dataset: the number of tasks asked for
  tasks,                 \* PoetryDataset.tasks
  saved,                 \* the tasks written to output_path, if any
  gpc                    \* position of the call of generate_dataset

builderVars == <<fn, text, lines, idx, pc, in_string, cleaned_phrase, syllables,
                 weights, patterns, message>>

indexVars == <<known_full_patterns, known_full_regexes, known_half_patterns,
               known_half_regexes, known_pada_patterns, known_pada_regexes,
               pattern_for_metre, all_data>>

dataVars == <<indexVars, sources, vrtta_data, di, dpc, id_input, id_result, answer>>

fileVars == <<file_data, file_i, open_files, fpc>>

genVars == <<num_tasks, tasks, saved, gpc>>

extraVars == <<fileVars, genVars>>

vars == <<builderVars, dataVars, calls, extraVars>>

FilesIdle ==
  /\ file_data = <<>>
  /\ file_i = 1
  /\ open_files = {}
  /\ fpc = "idle"

GenIdle ==
  /\ num_tasks = 0
  /\ tasks = <<>>
  /\ saved = <<>>
  /\ gpc = "idle"

ExtraIdle == FilesIdle /\ GenIdle

\* to_pattern_lines receives the caller's list of lines: the verse split at
\* line feeds, or the empty list; get_pattern_from_text receives the text
DataIdle ==
  /\ known_full_patterns = EmptyMap
  /\ known_full_regexes = <<>>
  /\ known_half_patterns = EmptyMap
  /\ known_half_regexes = <<>>
  /\ known_pada_patterns = EmptyMap
  /\ known_pada_regexes = <<>>
  /\ pattern_for_metre = EmptyMap
  /\ all_data = EmptyMap
  /\ sources = <<>>
  /\ vrtta_data = <<>>
  /\ di = 1
  /\ dpc = "start"
  /\ id_input = <<>>
  /\ id_result = EmptyMap
  /\ answer = [kind |-> "none", value |-> <<>>]

Init ==
  /\ DataIdle
  /\ fn \in Builders
  /\ text \in Texts
  /\ IF fn = "to_pattern_lines"
     THEN lines \in ({Split(text)} \cup {<<>>}) /\ pc = "line"
     ELSE lines = <<>> /\ pc = "call"
  /\ idx = 1
  /\ in_string = <<>>
  /\ cleaned_phrase = <<>>
  /\ syllables = <<>>
  /\ weights = <<>>
  /\ patterns = <<>>
  /\ message = NoMessage
  /\ calls = <<>>
  /\ ExtraIdle

\* get_pattern_from_text: split the text, strip, drop blank lines
SplitText ==
  /\ pc = "call"
  /\ lines' = StripNonBlank(Split(text))
  /\ pc' = "line"
  /\ UNCHANGED <<fn, text, idx, in_string, cleaned_phrase, syllables, weights,
                 patterns, message>>
  /\ UNCHANGED <<dataVars, calls, extraVars>>

\* to_weight_list(line) calls get_syllables(line), which cleans the line
BeginLine ==
  /\ pc = "line"
  /\ idx <= Len(lines)
  /\ in_string' = lines[idx]
  /\ cleaned_phrase' = CleanPhrase(lines[idx])
  /\ syllables' = <<>>
  /\ weights' = <<>>
  /\ pc' = "scan"
  /\ UNCHANGED <<fn, text, lines, idx, patterns, message>>
  /\ UNCHANGED <<dataVars, calls, extraVars>>

\* the result of replace() is dropped: cleaned_phrase stays as it was
ScanMatch_keep_phrase ==
  /\ pc = "scan"
  /\ Len(cleaned_phrase) > 0
  /\ MatchLen(cleaned_phrase) > 0
  /\ syllables' = Append(syllables, SubSeq(cleaned_phrase, 1, MatchLen(cleaned_phrase)))
  /\ UNCHANGED <<fn, text, lines, idx, pc, in_string, cleaned_phrase,
                 weights, patterns, message>>
  /\ UNCHANGED <<dataVars, calls, extraVars>>

\* one iteration of the while loop in which the regex matches
ScanMatch ==
  /\ pc = "scan"
  /\ Len(cleaned_phrase) > 0
  /\ MatchLen(cleaned_phrase) > 0
  /\ LET current_syllable == SubSeq(cleaned_phrase, 1, MatchLen(cleaned_phrase))
     IN /\ cleaned_phrase' = ReplaceFirst(cleaned_phrase, current_syllable)
        /\ syllables' = IF Len(current_syllable) > 0
                        THEN Append(syllables, current_syllable)
                        ELSE syllables
  /\ UNCHANGED <<fn, text, lines, idx, pc, in_string, weights, patterns, message>>
  /\ UNCHANGED <<dataVars, calls, extraVars>>

\* the unmatched character is dropped and the scan goes on
ScanRaise_skip_char ==
  /\ pc = "scan"
  /\ Len(cleaned_phrase) > 0
  /\ MatchLen(cleaned_phrase) = 0
  /\ cleaned_phrase' = Tail(cleaned_phrase)
  /\ UNCHANGED <<fn, text, lines, idx, pc, in_string, syllables, weights,
                 patterns, message>>
  /\ UNCHANGED <<dataVars, calls, extraVars>>

\* the error is caught by the builder, which goes on with the next line
ScanRaise_skip_line ==
  /\ pc = "scan"
  /\ Len(cleaned_phrase) > 0
  /\ MatchLen(cleaned_phrase) = 0
  /\ message' = [input |-> in_string, remaining |-> cleaned_phrase]
  /\ idx' = idx + 1
  /\ pc' = "line"
  /\ UNCHANGED <<fn, text, lines, in_string, cleaned_phrase, syllables,
                 weights, patterns>>
  /\ UNCHANGED <<dataVars, calls, extraVars>>

\* one iteration in which it does not: ValueError, which neither
\* to_weight_list nor the builders catch
ScanRaise ==
  /\ pc = "scan"
  /\ Len(cleaned_phrase) > 0
  /\ MatchLen(cleaned_phrase) = 0
  /\ message' = [input |-> in_string, remaining |-> cleaned_phrase]
  /\ pc' = "raised"
  /\ UNCHANGED <<fn, text, lines, idx, in_string, cleaned_phrase, syllables,
                 weights, patterns>>
  /\ UNCHANGED <<dataVars, calls, extraVars>>

\* the loop ends, get_syllables returns its list
ScanReturn ==
  /\ pc = "scan"
  /\ Len(cleaned_phrase) = 0
  /\ pc' = "weigh"
  /\ UNCHANGED <<fn, text, lines, idx, in_string, cleaned_phrase, syllables,
                 weights, patterns, message>>
  /\ UNCHANGED <<dataVars, calls, extraVars>>

\* to_weight_list: the weight of the next syllable
Weigh ==
  /\ pc = "weigh"
  /\ Len(weights) < Len(syllables)
  /\ weights' = Append(weights, get_syllable_weight(syllables[Len(weights) + 1]))
  /\ UNCHANGED <<fn, text, lines, idx, pc, in_string, cleaned_phrase, syllables,
                 patterns, message>>
  /\ UNCHANGED <<dataVars, calls, extraVars>>

\* the pattern is put in front of the list, and never filtered
EmitPattern_keep_empty ==
  /\ pc = "weigh"
  /\ Len(weights) = Len(syllables)
  /\ patterns' = Append(patterns, Join(weights))
  /\ idx' = idx + 1
  /\ pc' = "line"
  /\ UNCHANGED <<fn, text, lines, in_string, cleaned_phrase, syllables, weights,
                 message>>
  /\ UNCHANGED <<dataVars, calls, extraVars>>

EmitPattern_prepend ==
  /\ pc = "weigh"
  /\ Len(weights) = Len(syllables)
  /\ patterns' = <<Join(weights)>> \o patterns
  /\ idx' = idx + 1
  /\ pc' = "line"
  /\ UNCHANGED <<fn, text, lines, in_string, cleaned_phrase, syllables, weights,
                 message>>
  /\ UNCHANGED <<dataVars, calls, extraVars>>

\* the builder joins the weights and stores the pattern of the line
EmitPattern ==
  /\ pc = "weigh"
  /\ Len(weights) = Len(syllables)
  /\ LET pattern == Join(weights)
     IN patterns' = IF fn = "to_pattern_lines" \/ pattern # <<>>
                    THEN Append(patterns, pattern)
                    ELSE patterns
  /\ idx' = idx + 1
  /\ pc' = "line"
  /\ UNCHANGED <<fn, text, lines, in_string, cleaned_phrase, syllables, weights,
                 message>>
  /\ UNCHANGED <<dataVars, calls, extraVars>>

\* all lines done: the builder returns its list of patterns
Return ==
  /\ pc = "line"
  /\ idx > Len(lines)
  /\ pc' = "returned"
  /\ UNCHANGED <<fn, text, lines, idx, in_string, cleaned_phrase, syllables,
                 weights, patterns, message>>
  /\ UNCHANGED <<dataVars, calls, extraVars>>

Next ==
  \/ SplitText
  \/ BeginLine
  \/ ScanMatch
  \/ ScanRaise
  \/ ScanReturn
  \/ Weigh
  \/ EmitPattern
  \/ Return

Spec == Init /\ [][Next]_vars

\* ------------------------------------------------- InitializeData
Range(s) == {s[i] : i \in 1..Len(s)}

\* The "metres" of the catalog files.  The value of a pair is a string, a
\* list, or a dict with or without a "pattern" holding one.
Wrapped(e, wrapped) ==
  [name |-> e.name, kind |-> e.kind, description |-> e.description, wrapped |-> wrapped]

DictEntries == {e \in Entries : e.kind = "list" /\ "." \in Range(e.description[1])}

\* entries to be skipped: a dict without "pattern", a string that starts
\* with TODO, and a dict whose "pattern" is such a string
Placeholders ==
  { [name |-> "m1", kind |-> "str", description |-> <<>>, wrapped |-> "dict without pattern"],
    [name |-> "m2", kind |-> "str", description |-> <<<<"TODO", "L">>>>, wrapped |-> "no"],
    [name |-> "m4", kind |-> "str", description |-> <<<<"TODO">>>>, wrapped |-> "dict"] }

RawEntries ==
  {Wrapped(e, IF e \in DictEntries THEN "dict" ELSE "no") : e \in Entries} \cup Placeholders

Catalogs == SeqsUpTo(RawEntries, MaxMetres)

\* jsonToPy keeps the pairs whose value is not a dict without "pattern" and,
\* once a dict is replaced by its "pattern", not a string starting with TODO
Kept(r) ==
  /\ r.wrapped # "dict without pattern"
  /\ ~(r.kind = "str" /\ r.description[1] # <<>> /\ r.description[1][1] = "TODO")

jsonToPy_keep_todo(data) ==
  LET kept == SelectSeq(data, LAMBDA r : r.wrapped # "dict without pattern")
  IN [i \in 1..Len(kept) |->
        [name |-> kept[i].name, kind |-> kept[i].kind, description |-> kept[i].description]]

jsonToPy(data) ==
  LET kept == SelectSeq(data, Kept)
  IN [i \in 1..Len(kept) |->
        [name |-> kept[i].name, kind |-> kept[i].kind, description |-> kept[i].description]]

\* InitializeData up to its loop: the Anustup and Arya regexes are added
\* and the catalog sources are read
InitializeDataBegin ==
  /\ dpc = "start"
  /\ known_full_regexes' = known_full_regexes \o AnustupFull \o AnustupExamples
                             \o AryaFamilyStrict
  /\ known_half_regexes' = known_half_regexes \o AnustupHalf
  /\ known_pada_regexes' = known_pada_regexes \o AnustupPada
  /\ sources' \in Catalogs
  /\ vrtta_data' = jsonToPy(sources')
  /\ di' = 1
  /\ dpc' = "load"
  /\ UNCHANGED <<known_full_patterns, known_half_patterns, known_pada_patterns,
                 pattern_for_metre, all_data, id_input, id_result, answer>>
  /\ UNCHANGED <<builderVars, calls, extraVars>>

Entry == vrtta_data[di]

Loading(samatva, regex_or_pattern) ==
  /\ dpc = "load"
  /\ di <= Len(vrtta_data)
  /\ Samatva(Entry) = samatva
  /\ RegexOrPattern(Entry) = regex_or_pattern
  /\ EntryPasses(Entry)

Recorded ==
  /\ all_data' = SetItem(all_data, Entry.name,
                         [samatva |-> Samatva(Entry),
                          regex_or_pattern |-> RegexOrPattern(Entry),
                          description |-> Entry.description])
  /\ di' = di + 1
  /\ UNCHANGED <<sources, vrtta_data, dpc, id_input, id_result, answer>>
  /\ UNCHANGED <<builderVars, calls, extraVars>>

\* a sama entry that is a regex: _AddSamavrttaRegex
LoadSamavrttaRegex ==
  /\ Loading("sama", "regex")
  /\ LET pada_regex == CleanUpSimpleRegex(Entry.description[1]) IN
     /\ known_full_regexes' = Append(known_full_regexes,
          [regex |-> JoinRegexes(<<pada_regex, pada_regex, pada_regex, pada_regex>>),
           metre |-> Entry.name])
     /\ known_half_regexes' = Append(known_half_regexes,
          [regex |-> JoinRegexes(<<pada_regex, pada_regex>>),
           metre |-> Entry.name, which |-> {1, 2}])
     /\ known_pada_regexes' = Append(known_pada_regexes,
          [regex |-> SimpleRegex(pada_regex),
           metre |-> Entry.name, which |-> {1, 2, 3, 4}])
  /\ UNCHANGED <<known_full_patterns, known_half_patterns, known_pada_patterns,
                 pattern_for_metre>>
  /\ Recorded

\* a sama entry that is a pattern: _AddSamavrttaPattern
LoadSamavrttaPattern ==
  /\ Loading("sama", "pattern")
  /\ LET clean == CleanUpPattern(Entry.description[1])
         ps == EndVariants(clean)
     IN
     /\ pattern_for_metre' =
          AddPatternForMetre(pattern_for_metre, Entry.name, <<clean, clean, clean, clean>>)
     /\ known_full_patterns' =
          AddFullPatterns(known_full_patterns, Product4(ps, ps, ps, ps), Entry.name)
     /\ known_half_patterns' =
          AddRolePatterns(known_half_patterns, Product2(ps, ps), Entry.name, {1, 2})
     /\ known_pada_patterns' =
          AddRolePatterns(known_pada_patterns, ps, Entry.name, {1, 2, 3, 4})
  /\ UNCHANGED <<known_full_regexes, known_half_regexes, known_pada_regexes>>
  /\ Recorded

\* a list of two patterns: _AddArdhasamavrttaPattern
LoadArdhasamavrttaPattern ==
  /\ Loading("ardhasama", "pattern")
  /\ LET clean_odd == CleanUpPattern(Entry.description[1])
         clean_even == CleanUpPattern(Entry.description[2])
         patterns_odd == EndVariants(clean_odd)
         patterns_even == EndVariants(clean_even)
     IN
     /\ pattern_for_metre' =
          AddPatternForMetre(pattern_for_metre, Entry.name,
                             <<clean_odd, clean_even, clean_odd, clean_even>>)
     /\ known_full_patterns' =
          AddFullPatterns(known_full_patterns,
                          Product4(patterns_odd, patterns_even, patterns_odd, patterns_even),
                          Entry.name)
     /\ known_half_patterns' =
          AddRolePatterns(known_half_patterns, Product2(patterns_odd, patterns_even),
                          Entry.name, {1, 2})
     /\ known_pada_patterns' =
          AddRolePatterns(
            AddRolePatterns(known_pada_patterns, patterns_odd, Entry.name, {1, 3}),
            patterns_even, Entry.name, {2, 4})
  /\ UNCHANGED <<known_full_regexes, known_half_regexes, known_pada_regexes>>
  /\ Recorded

\* a list of four patterns: _AddVishamavrttaPattern
LoadVishamavrttaPattern ==
  /\ Loading("visama", "pattern")
  /\ LET pa == CleanUpPattern(Entry.description[1])
         pb == CleanUpPattern(Entry.description[2])
         pc_ == CleanUpPattern(Entry.description[3])
         pd == CleanUpPattern(Entry.description[4])
         patterns_a == <<pa>>
         patterns_b == EndVariants(pb)
         patterns_c == <<pc_>>
         patterns_d == EndVariants(pd)
     IN
     /\ pattern_for_metre' =
          AddPatternForMetre(pattern_for_metre, Entry.name, <<pa, pb, pc_, pd>>)
     /\ known_full_patterns' =
          AddFullPatterns(known_full_patterns,
                          Product4(patterns_a, patterns_b, patterns_c, patterns_d),
                          Entry.name)
     /\ known_half_patterns' =
          AddRolePatterns(
            AddRolePatterns(known_half_patterns, Product2(patterns_a, patterns_b),
                            Entry.name, {1}),
            Product2(patterns_c, patterns_d), Entry.name, {2})
     /\ known_pada_patterns' =
          AddRolePatterns(
            AddRolePatterns(
              AddRolePatterns(
                AddRolePatterns(known_pada_patterns, patterns_a, Entry.name, {1}),
                patterns_b, Entry.name, {2}),
              patterns_c, Entry.name, {3}),
            patterns_d, Entry.name, {4})
  /\ UNCHANGED <<known_full_regexes, known_half_regexes, known_pada_regexes>>
  /\ Recorded

\* an assertion fails: the AssertionError ends InitializeData; all_data has
\* the entry already unless the failing assertion is the one on the length
\* of a list
LoadFail ==
  /\ dpc = "load"
  /\ di <= Len(vrtta_data)
  /\ ~EntryPasses(Entry)
  /\ all_data' = IF Entry.kind = "list" /\ Len(Entry.description) \notin {2, 4}
                 THEN all_data
                 ELSE SetItem(all_data, Entry.name,
                              [samatva |-> Samatva(Entry),
                               regex_or_pattern |-> RegexOrPattern(Entry),
                               description |-> Entry.description])
  /\ dpc' = "failed"
  /\ UNCHANGED <<known_full_patterns, known_full_regexes, known_half_patterns,
                 known_half_regexes, known_pada_patterns, known_pada_regexes,
                 pattern_for_metre, sources, vrtta_data, di, id_input, id_result, answer>>
  /\ UNCHANGED <<builderVars, calls, extraVars>>

\* the loop is over: InitializeData returns
InitializeDataEnd ==
  /\ dpc = "load"
  /\ di > Len(vrtta_data)
  /\ dpc' = "ready"
  /\ UNCHANGED <<indexVars, sources, vrtta_data, di, id_input, id_result, answer>>
  /\ UNCHANGED <<builderVars, calls, extraVars>>

\* ------------------------------------------------- identification
\* the metres of the entries of a regex list that match s in role r
RegexHits(regexes, s, r) ==
  {regexes[i].metre : i \in {j \in 1..Len(regexes) :
                               /\ r \in regexes[j].which
                               /\ RegexMatches(regexes[j].regex, s)}}

lookup_full(s) ==
  (IF s \in DOMAIN known_full_patterns THEN known_full_patterns[s] ELSE {})
  \cup {known_full_regexes[i].metre :
          i \in {j \in 1..Len(known_full_regexes) :
                   RegexMatches(known_full_regexes[j].regex, s)}}

lookup_half(s, half) ==
  (IF s \in DOMAIN known_half_patterns
   THEN {m \in DOMAIN known_half_patterns[s] : half \in known_half_patterns[s][m]}
   ELSE {})
  \cup RegexHits(known_half_regexes, s, half)

lookup_pada(s, pada) ==
  (IF s \in DOMAIN known_pada_patterns
   THEN {m \in DOMAIN known_pada_patterns[s] : pada \in known_pada_patterns[s][m]}
   ELSE {})
  \cup RegexHits(known_pada_regexes, s, pada)

\* The identifier: the hits of each granularity for a list of 1, 2 or 4
\* pada patterns, every metre reported in its highest bucket only.  For two
\* patterns the half-verse hits are exact unless a full-verse match of
\* another metre exists; pada hits are partial for a single pattern and
\* accidental otherwise.
Aggregate_no_priority(exact, partial, accidental) ==
  [b \in {"exact", "partial", "accidental"} |->
     IF b = "exact" THEN exact
     ELSE IF b = "partial" THEN partial
     ELSE accidental]

Aggregate(exact, partial, accidental) ==
  [b \in {"exact", "partial", "accidental"} |->
     IF b = "exact" THEN exact
     ELSE IF b = "partial" THEN partial \ exact
     ELSE accidental \ (exact \cup partial)]

IdentifyFromPatternLines_half_only(pl) ==
  LET n == Len(pl)
      half == IF n = 2 THEN lookup_half(pl[1] \o pl[2], 1)
              ELSE IF n = 4
              THEN lookup_half(pl[1] \o pl[2], 1) \cup lookup_half(pl[3] \o pl[4], 2)
              ELSE {}
      pada == IF n \in {1, 2, 4}
              THEN UNION {lookup_pada(pl[i], i) : i \in 1..n}
              ELSE {}
  IN Aggregate(IF n = 2 THEN half ELSE {},
               IF n = 1 THEN pada ELSE half,
               IF n = 1 THEN {} ELSE pada)

IdentifyFromPatternLines_no_demotion(pl) ==
  LET n == Len(pl)
      full == IF n \in {2, 4} THEN lookup_full(Flatten(pl)) ELSE {}
      half == IF n = 2 THEN lookup_half(pl[1] \o pl[2], 1)
              ELSE IF n = 4
              THEN lookup_half(pl[1] \o pl[2], 1) \cup lookup_half(pl[3] \o pl[4], 2)
              ELSE {}
      pada == IF n \in {1, 2, 4}
              THEN UNION {lookup_pada(pl[i], i) : i \in 1..n}
              ELSE {}
  IN Aggregate(full \cup (IF n = 2 THEN half ELSE {}),
               IF n = 1 THEN pada ELSE half,
               IF n = 1 THEN {} ELSE pada)

IdentifyFromPatternLines(pl) ==
  LET n == Len(pl)
      full == IF n \in {2, 4} THEN lookup_full(Flatten(pl)) ELSE {}
      half == IF n = 2 THEN lookup_half(pl[1] \o pl[2], 1)
              ELSE IF n = 4
              THEN lookup_half(pl[1] \o pl[2], 1) \cup lookup_half(pl[3] \o pl[4], 2)
              ELSE {}
      pada == IF n \in {1, 2, 4}
              THEN UNION {lookup_pada(pl[i], i) : i \in 1..n}
              ELSE {}
      exact == full \cup (IF n = 2 THEN {m \in half : full \subseteq {m}} ELSE {})
      partial == IF n = 1 THEN pada ELSE half
      accidental == IF n = 1 THEN {} ELSE pada
  IN Aggregate(exact, partial, accidental)

\* the verses handed to the identifier, as lists of pada patterns; each is
\* written out with a short syllable for L and a long one for G
Queries ==
  { <<>>,
    <<<<"L">>>>, <<<<"L", "G">>>>,
    <<<<"L">>, <<"G">>>>, <<<<"L", "G">>, <<"L", "L">>>>, <<<<"L", "G">>, <<"G", "L">>>>,
    <<<<"L">>, <<"L">>, <<"G">>, <<"L">>>>,
    <<<<"L", "G">>, <<"L", "G">>, <<"L", "G">>, <<"L", "L">>>>,
    <<<<"L", "G">>, <<"L", "L">>, <<"L">>, <<"L", "G">>>>,
    <<<<"L", "L">>, <<"L", "L">>, <<"L", "G">>, <<"L", "L">>>>,
    <<<<"G", "G">>, <<"L", "L">>, <<"L", "G">>, <<"L", "L">>>> }

PadaText(p) == Flatten([i \in 1..Len(p) |-> IF p[i] = "G" THEN <<"k", "I">> ELSE <<"k">>])

RECURSIVE VerseText(_)
VerseText(q) ==
  IF q = <<>> THEN <<>>
  ELSE IF Len(q) = 1 THEN PadaText(q[1])
  ELSE PadaText(Head(q)) \o <<"nl">> \o VerseText(Tail(q))

\* Bhagavad-Gita 4.7 as SAMPLE_POEMS holds it, four padas on four lines,
\* each character written by its class: k a consonant, h the virama, a the
\* vowel a, i a short and I a long vowel sign, M the anusvara, x a danda
\*   ya dA  ya dA  hi  dha r-ma s-ya
\*   g-lA ni r-bha va ti  bhA ra ta |
\*   a bh-yu t-thA na ma dha r-ma s-ya
\*   ta dA t-mA naM  sR jA m-ya ha m- ||
Gita47 ==
  <<"k", "k", "I", "sp", "k", "k", "I", "sp", "k", "i", "sp",
    "k", "k", "h", "k", "k", "h", "k", "nl",
    "k", "h", "k", "I", "k", "i", "k", "h", "k", "k", "k", "i", "sp",
    "k", "I", "k", "k", "x", "nl",
    "a", "k", "h", "k", "i", "k", "h", "k", "I", "k", "k",
    "k", "k", "h", "k", "k", "h", "k", "nl",
    "k", "k", "I", "k", "h", "k", "I", "k", "M", "sp",
    "k", "i", "k", "I", "k", "h", "k", "k", "k", "h", "x">>

Verses == {VerseText(q) : q \in Queries} \cup {Gita47}

\* what the two builders return for the verses
VersePatternLines == [v \in Verses |-> PatternsOf(Split(v), TRUE)]

VersePatterns == [v \in Verses |-> PatternsOf(StripNonBlank(Split(v)), FALSE)]

\* identify_test.py: to_pattern_lines(verse.split("\n")), then the identifier
IdentifyVerse ==
  /\ dpc = "ready"
  /\ \E v \in Verses :
     \E pattern_lines \in {VersePatternLines[v]} :
       /\ id_input' = pattern_lines
       /\ id_result' = IdentifyFromPatternLines(pattern_lines)
  /\ dpc' = "identified"
  /\ UNCHANGED <<indexVars, sources, vrtta_data, di, answer>>
  /\ UNCHANGED <<builderVars, calls, extraVars>>

identify_meter_no_guard ==
  /\ dpc = "ready"
  /\ \E v \in Verses :
     \E patterns_ \in {VersePatterns[v]} :
       /\ id_input' = patterns_
       /\ id_result' = IdentifyFromPatternLines(patterns_)
  /\ dpc' = "identified"
  /\ UNCHANGED <<indexVars, sources, vrtta_data, di, answer>>
  /\ UNCHANGED <<builderVars, calls, extraVars>>

\* MeterVerifier.identify_meter: no pattern gives {}, else the identifier
identify_meter ==
  /\ dpc = "ready"
  /\ \E v \in Verses :
     \E patterns_ \in {VersePatterns[v]} :
       /\ id_input' = patterns_
       /\ id_result' = IF patterns_ = <<>> THEN EmptyMap
                       ELSE IdentifyFromPatternLines(patterns_)
  /\ dpc' = "identified"
  /\ UNCHANGED <<indexVars, sources, vrtta_data, di, answer>>
  /\ UNCHANGED <<builderVars, calls, extraVars>>

\* ------------------------------------------------- verify_meter
\* normalize_meter_name on the names of the model: a name that holds
\* "sloka" in either script, a Devanagari name of meter_map ("deva:" stands
\* for the script), the name anustup, and otherwise the name in lower case
normalize_meter_name(name) ==
  LET meter_map == [n \in {"deva:anustubh", "deva:indravajra"} |->
                      IF n = "deva:anustubh" THEN "anustup (sloka)" ELSE "indravajra"]
      name_lower == CASE name = "Indravajra" -> "indravajra"
                      [] name = "Anustup" -> "anustup"
                      [] name = "Anustup (Sloka)" -> "anustup (sloka)"
                      [] name = "Arya" -> "arya"
                      [] name = "Giti" -> "giti"
                      [] name = "Upagiti" -> "upagiti"
                      [] name = "Udgiti" -> "udgiti"
                      [] name = "Aryagiti" -> "aryagiti"
                      [] OTHER -> name
  IN IF name \in {"Anustup (Sloka)", "deva:sloka"} THEN "anustup (sloka)"
     ELSE IF name \in DOMAIN meter_map THEN meter_map[name]
     ELSE IF name_lower = "anustup" THEN "anustup (sloka)"
     ELSE name_lower

meters_with_partial_as_exact ==
  {"mandakranta", "sikharini", "indravajra", "drutavilambitam", "bhujangaprayatam"}

\* the expected metre names and the texts handed to verify_meter
ExpectedNames == {"Indravajra", "deva:indravajra", "m3", "Anustup", "deva:sloka"}

VerifyVerses ==
  { VerseText(<<<<"L", "G">>, <<"L", "L">>, <<"L">>, <<"L", "G">>>>),
    VerseText(<<<<"L", "G">>, <<"L", "G">>, <<"L", "G">>, <<"L", "L">>>>),
    Gita47 }

\* verify_meter without the special handling of the five names
verify_meter_exact_only ==
  /\ dpc = "ready"
  /\ \E v \in VerifyVerses :
     \E patterns_ \in {VersePatterns[v]} :
     \E identified_meters \in {IF patterns_ = <<>> THEN EmptyMap
                                ELSE IdentifyFromPatternLines(patterns_)} :
     \E expected_meter \in ExpectedNames :
       LET normalized_expected == normalize_meter_name(expected_meter)
           exact_matches ==
             {normalize_meter_name(m) :
                m \in IF "exact" \in DOMAIN identified_meters
                      THEN identified_meters["exact"] ELSE {}}
           partial_matches ==
             {normalize_meter_name(m) :
                m \in IF "partial" \in DOMAIN identified_meters
                      THEN identified_meters["partial"] ELSE {}}
       IN /\ id_input' = patterns_
          /\ id_result' = identified_meters
          /\ answer' = [kind |-> "verify_meter",
                        value |-> [is_correct |-> normalized_expected \in exact_matches,
                                   normalized_expected |-> normalized_expected,
                                   is_partial_match |->
                                     normalized_expected \in partial_matches]]
  /\ dpc' = "verified"
  /\ UNCHANGED <<indexVars, sources, vrtta_data, di>>
  /\ UNCHANGED <<builderVars, calls, extraVars>>

\* MeterVerifier.verify_meter(text, expected_meter): identify_meter, the
\* normalized names of the exact and of the partial bucket, then the test
\* for an exact match, which a partial match of one of the five names
\* turns to True
verify_meter ==
  /\ dpc = "ready"
  /\ \E v \in VerifyVerses :
     \E patterns_ \in {VersePatterns[v]} :
     \E identified_meters \in {IF patterns_ = <<>> THEN EmptyMap
                                ELSE IdentifyFromPatternLines(patterns_)} :
     \E expected_meter \in ExpectedNames :
       LET normalized_expected == normalize_meter_name(expected_meter)
           exact_matches ==
             {normalize_meter_name(m) :
                m \in IF "exact" \in DOMAIN identified_meters
                      THEN identified_meters["exact"] ELSE {}}
           partial_matches ==
             {normalize_meter_name(m) :
                m \in IF "partial" \in DOMAIN identified_meters
                      THEN identified_meters["partial"] ELSE {}}
           is_exact_match == normalized_expected \in exact_matches
           is_partial_match == normalized_expected \in partial_matches
       IN /\ id_input' = patterns_
          /\ id_result' = identified_meters
          /\ answer' = [kind |-> "verify_meter",
                        value |-> [is_correct |->
                                     IF normalized_expected \in meters_with_partial_as_exact
                                        /\ is_partial_match
                                     THEN TRUE ELSE is_exact_match,
                                   normalized_expected |-> normalized_expected,
                                   is_partial_match |-> is_partial_match]]
  /\ dpc' = "verified"
  /\ UNCHANGED <<indexVars, sources, vrtta_data, di>>
  /\ UNCHANGED <<builderVars, calls, extraVars>>

\* ------------------------------------------------- after InitializeData
\* GetPattern(metre): pattern_for_metre.get(metre)
GetPattern ==
  /\ dpc = "ready"
  /\ \E metre \in Names :
       answer' = IF metre \in DOMAIN pattern_for_metre
                 THEN [kind |-> "pattern", value |-> pattern_for_metre[metre]]
                 ELSE [kind |-> "None", value |-> <<>>]
  /\ dpc' = "answered"
  /\ UNCHANGED <<indexVars, sources, vrtta_data, di, id_input, id_result>>
  /\ UNCHANGED <<builderVars, calls, extraVars>>

\* HtmlDescription(name): a text made of the record all_data holds for the
\* name; its kind and the description it quotes stand for the text
HtmlDescription ==
  /\ dpc = "ready"
  /\ \E name \in Names :
       answer' = IF name \notin DOMAIN all_data
                 THEN [kind |-> "No description", value |-> <<>>]
                 ELSE IF all_data[name].regex_or_pattern = "regex"
                 THEN [kind |-> "regex", value |-> all_data[name].description]
                 ELSE [kind |-> all_data[name].samatva,
                       value |-> all_data[name].description]
  /\ dpc' = "answered"
  /\ UNCHANGED <<indexVars, sources, vrtta_data, di, id_input, id_result>>
  /\ UNCHANGED <<builderVars, calls, extraVars>>

\* InitializeData called once more: the Anustup and Arya regexes are
\* appended again; then "assert not all_data" fails when a metre was
\* loaded, and otherwise the catalog, which holds no entry, is gone through
InitializeDataAgain ==
  /\ dpc = "ready"
  /\ known_full_regexes' = known_full_regexes \o AnustupFull \o AnustupExamples
                             \o AryaFamilyStrict
  /\ known_half_regexes' = known_half_regexes \o AnustupHalf
  /\ known_pada_regexes' = known_pada_regexes \o AnustupPada
  /\ dpc' = IF all_data # EmptyMap THEN "failed again" ELSE "ready again"
  /\ UNCHANGED <<known_full_patterns, known_half_patterns, known_pada_patterns,
                 pattern_for_metre, all_data, sources, vrtta_data, di, id_input, id_result,
                 answer>>
  /\ UNCHANGED <<builderVars, calls, extraVars>>

InitData ==
  /\ DataIdle
  /\ fn = "to_pattern_lines"
  /\ text = <<>>
  /\ lines = <<>>
  /\ idx = 1
  /\ pc = "idle"
  /\ in_string = <<>>
  /\ cleaned_phrase = <<>>
  /\ syllables = <<>>
  /\ weights = <<>>
  /\ patterns = <<>>
  /\ message = NoMessage
  /\ calls = <<>>
  /\ ExtraIdle

NextData ==
  \/ InitializeDataBegin
  \/ LoadSamavrttaRegex
  \/ LoadSamavrttaPattern
  \/ LoadArdhasamavrttaPattern
  \/ LoadVishamavrttaPattern
  \/ LoadFail
  \/ InitializeDataEnd
  \/ IdentifyVerse
  \/ identify_meter
  \/ verify_meter
  \/ GetPattern
  \/ HtmlDescription
  \/ InitializeDataAgain

SpecData == InitData /\ [][NextData]_vars

\* ================================================= properties
\* is_vyanjanaanta: the string ends in a virama, or in a virama followed by
\* candrabindu                                       (syllabize.py:27-28)
is_vyanjanaanta(in_string_) ==
  LET n == Len(in_string_) IN
  \/ n >= 1 /\ in_string_[n] = "h"
  \/ n >= 3 /\ in_string_[n] = "cb" /\ in_string_[n - 1] = "h"
            /\ in_string_[n - 2] \in PATTERN_VYANJANA

HasChar(s, C) == \E i \in 1..Len(s) : s[i] \in C

\* the lines the caller handed to the builder
InputLines == IF fn = "to_pattern_lines" THEN lines ELSE Split(text)

IsBlank(line) == \A i \in 1..Len(line) : line[i] = "sp"

OnlyPunctuationOrSpace(line) == \A i \in 1..Len(line) : line[i] \in {"sp", "x"}

Terminated == pc \in {"returned", "raised"}

\* C1: for every line get_syllables accepts, the syllables it returns,
\* concatenated in order, are exactly the cleaned line.
C1_RoundTrip ==
  pc = "weigh" => Flatten(syllables) = CleanPhrase(in_string)

C1_Witness ==
  /\ pc = "weigh"
  /\ Len(syllables) >= 2
  /\ CleanPhrase(in_string) # in_string

C3_OneWeightPerSyllable ==
  /\ Len(weights) <= Len(syllables)
  /\ \A i \in 1..Len(weights) : weights[i] \in {<<"L">>, <<"G">>}
  /\ (pc \in {"line", "returned"} /\ idx > 1) =>
       /\ Len(weights) = Len(syllables)
       /\ (fn = "to_pattern_lines" \/ syllables # <<>>) =>
            /\ patterns # <<>>
            /\ Len(patterns[Len(patterns)]) = Len(syllables)
            /\ \A k \in 1..Len(syllables) :
                 patterns[Len(patterns)][k] \in {"L", "G"}

C3_Witness ==
  /\ pc = "returned"
  /\ Len(syllables) >= 2
  /\ \E i, j \in 1..Len(weights) : weights[i] = <<"L">> /\ weights[j] = <<"G">>

\* C4 as stated: the builder returns one pattern per non-blank input line,
\* in input order, and no empty pattern.
C4_Original ==
  pc = "returned" =>
    /\ patterns = PatternsOf(SelectSeq(InputLines, LAMBDA l : ~IsBlank(l)), TRUE)
    /\ \A i \in 1..Len(patterns) : patterns[i] # <<>>

\* C4 as amended: get_pattern_from_text returns, in input order, one
\* pattern per line that holds at least one syllable, and no empty pattern;
\* to_pattern_lines returns one pattern per input line, in input order, the
\* pattern of a blank or syllable-free line being the empty string.
C4_OnePatternPerLine ==
  pc = "returned" =>
    IF fn = "to_pattern_lines"
    THEN /\ Len(patterns) = Len(InputLines)
         /\ \A i \in 1..Len(patterns) : patterns[i] = PatternOf(InputLines[i])
    ELSE /\ patterns = PatternsOf(InputLines, FALSE)
         /\ \A i \in 1..Len(patterns) : patterns[i] # <<>>

C4_Witness ==
  /\ pc = "returned"
  /\ Len(InputLines) >= 3
  /\ \E i \in 1..Len(InputLines) : IsBlank(InputLines[i])
  /\ Len(patterns) >= 2
  /\ patterns[1] # patterns[2]

\* C5 as stated: empty text, and text of punctuation and white space only,
\* give the empty pattern list, without error.
C5_Original ==
  (Terminated /\ \A i \in 1..Len(InputLines) : OnlyPunctuationOrSpace(InputLines[i]))
    => pc = "returned" /\ patterns = <<>>

\* C5 as amended: for empty text and for text of punctuation and white
\* space only, get_pattern_from_text returns the empty list without error;
\* to_pattern_lines returns the empty list for an empty list of lines, and
\* otherwise one empty pattern string per line.
C5_EmptyInput ==
  (Terminated /\ \A i \in 1..Len(InputLines) : OnlyPunctuationOrSpace(InputLines[i]))
    => /\ pc = "returned"
       /\ fn = "get_pattern_from_text" => patterns = <<>>
       /\ fn = "to_pattern_lines" =>
            /\ Len(patterns) = Len(InputLines)
            /\ \A i \in 1..Len(patterns) : patterns[i] = <<>>

C5_Witness ==
  /\ pc = "returned"
  /\ fn = "get_pattern_from_text"
  /\ HasChar(text, {"x"}) /\ HasChar(text, {"sp"}) /\ HasChar(text, {"nl"})
  /\ \A i \in 1..Len(text) : text[i] \in {"x", "sp", "nl"}
  /\ patterns = <<>>

\* C6: when the regex matches nothing at the start of the text that is
\* left, get_syllables raises an error that carries the input and the whole
\* unconsumed remainder; it never drops or skips text it cannot parse.
C6_RaiseStep ==
  (pc = "scan" /\ Len(cleaned_phrase) > 0 /\ MatchLen(cleaned_phrase) = 0)
    => /\ pc' = "raised"
       /\ message' = [input |-> in_string, remaining |-> cleaned_phrase]
       /\ UNCHANGED <<cleaned_phrase, syllables>>

C6_RaisedState ==
  pc = "raised" =>
    /\ message.input = in_string
    /\ message.remaining # <<>>
    /\ MatchLen(message.remaining) = 0
    /\ Flatten(syllables) \o message.remaining = CleanPhrase(in_string)

C6_SegmentationError == [][C6_RaiseStep]_vars /\ []C6_RaisedState

C6_Witness ==
  /\ pc = "raised"
  /\ Len(syllables) >= 1
  /\ Len(message.remaining) >= 1

\* C7 as stated: a segmentation error in one line leaves the batch alive:
\* the call still returns, with the patterns of all the other lines.
C7_Original ==
  Terminated =>
    \A i \in 1..Len(lines) :
      LineParsable(lines[i]) /\ PatternOf(lines[i]) # <<>>
        => /\ pc = "returned"
           /\ \E k \in 1..Len(patterns) : patterns[k] = PatternOf(lines[i])

\* C7 as amended: a segmentation error in a line is fatal to the builder
\* call: the error leaves to_pattern_lines and get_pattern_from_text at the
\* first line that cannot be parsed, no pattern list is returned, and a
\* call returns only when every line could be parsed.
C7_ErrorAbortsBatch ==
  /\ pc = "raised" =>
       /\ idx <= Len(lines)
       /\ ~LineParsable(lines[idx])
       /\ message.input = lines[idx]
       /\ \A j \in 1..(idx - 1) : LineParsable(lines[j])
  /\ pc = "returned" => \A j \in 1..Len(lines) : LineParsable(lines[j])

C7_Witness ==
  /\ pc = "raised"
  /\ idx = 2
  /\ patterns # <<>>
  /\ Len(lines) >= 2

\* ------------------------------------------------- identification claims
Identified == dpc = "identified"

HasBuckets == DOMAIN id_result = {"exact", "partial", "accidental"}

\* C8: when the identifier is given exactly four pada patterns, every metre
\* whose full-verse pattern is the concatenation of the four, and every
\* metre with a full-verse regex matching it, is in the exact bucket.
C8_FourPatternsExact ==
  Identified /\ Len(id_input) = 4 =>
    LET s == Flatten(id_input) IN
      /\ HasBuckets
      /\ s \in DOMAIN known_full_patterns => known_full_patterns[s] \subseteq id_result["exact"]
      /\ \A i \in 1..Len(known_full_regexes) :
           RegexMatches(known_full_regexes[i].regex, s)
             => known_full_regexes[i].metre \in id_result["exact"]

C8_Witness ==
  /\ Identified
  /\ Len(id_input) = 4
  /\ Flatten(id_input) \in DOMAIN known_full_patterns
  /\ \E i \in 1..Len(known_full_regexes) :
       /\ RegexMatches(known_full_regexes[i].regex, Flatten(id_input))
       /\ known_full_regexes[i].metre \notin known_full_patterns[Flatten(id_input)]
  /\ Cardinality(id_result["exact"]) >= 2

\* C9: in every identification result the exact, partial and accidental
\* buckets are pairwise disjoint: no metre name is in two of them.
C9_BucketsDisjoint ==
  Identified /\ HasBuckets =>
    /\ id_result["exact"] \cap id_result["partial"] = {}
    /\ id_result["exact"] \cap id_result["accidental"] = {}
    /\ id_result["partial"] \cap id_result["accidental"] = {}

\* a metre matched at full-verse, half-verse and pada granularity at once
C9_Witness ==
  /\ Identified
  /\ Len(id_input) = 4
  /\ \E m \in id_result["exact"] :
       /\ m \in lookup_half(id_input[1] \o id_input[2], 1)
       /\ m \in lookup_pada(id_input[1], 1)
  /\ id_result["partial"] # {}

\* C10 as stated: the full-verse index maps an expanded pattern to every
\* metre that contributes it: each sama pattern entry loaded so far is
\* found under every one of its expanded full-verse keys.
C10_Original ==
  \A j \in 1..(di - 1) :
    (/\ j <= Len(vrtta_data)
     /\ Samatva(vrtta_data[j]) = "sama"
     /\ RegexOrPattern(vrtta_data[j]) = "pattern")
    => LET ps == EndVariants(CleanUpPattern(vrtta_data[j].description[1]))
           keys == Product4(ps, ps, ps, ps)
       IN \A k \in 1..Len(keys) :
            /\ keys[k] \in DOMAIN known_full_patterns
            /\ vrtta_data[j].name \in known_full_patterns[keys[k]]

\* ================================================= concurrent calls
\* Two threads call to_pattern_lines at the same time.  All the names the
\* calls assign (cleaned_phrase, syllables, match, current_syllable, the
\* lists of the comprehensions) are locals of the frames of get_syllables,
\* to_weight_list and to_pattern_lines, so each thread holds its own.
Threads == {1, 2}

ConcAlphabet == {"k", "I", "h", "nl"}

ConcInputs == {Split(t) : t \in SeqsUpTo(ConcAlphabet, MaxConc)}

NewCall(input_lines) ==
  [lines |-> input_lines, idx |-> 1, pc |-> "line", in_string |-> <<>>,
   cleaned_phrase |-> <<>>, syllables |-> <<>>, weights |-> <<>>,
   patterns |-> <<>>, message |-> NoMessage]

\* the next step of a call with locals c, as in BeginLine, ScanMatch,
\* ScanRaise, ScanReturn, Weigh, EmitPattern and Return
StepOf(c) ==
  IF c.pc = "line"
  THEN IF c.idx <= Len(c.lines)
       THEN [c EXCEPT !.in_string = c.lines[c.idx],
                      !.cleaned_phrase = CleanPhrase(c.lines[c.idx]),
                      !.syllables = <<>>, !.weights = <<>>, !.pc = "scan"]
       ELSE [c EXCEPT !.pc = "returned"]
  ELSE IF c.pc = "scan"
  THEN IF Len(c.cleaned_phrase) = 0 THEN [c EXCEPT !.pc = "weigh"]
       ELSE IF MatchLen(c.cleaned_phrase) = 0
       THEN [c EXCEPT !.message = [input |-> c.in_string, remaining |-> c.cleaned_phrase],
                      !.pc = "raised"]
       ELSE LET current_syllable == SubSeq(c.cleaned_phrase, 1, MatchLen(c.cleaned_phrase))
            IN [c EXCEPT !.cleaned_phrase = ReplaceFirst(c.cleaned_phrase, current_syllable),
                         !.syllables = Append(c.syllables, current_syllable)]
  ELSE IF Len(c.weights) < Len(c.syllables)
  THEN [c EXCEPT !.weights = Append(c.weights,
                                    get_syllable_weight(c.syllables[Len(c.weights) + 1]))]
  ELSE [c EXCEPT !.patterns = Append(c.patterns, Join(c.weights)),
                 !.idx = c.idx + 1, !.pc = "line"]

Running(t) == calls[t].pc \in {"line", "scan", "weigh"}

\* cleaned_phrase kept in one module-level name that all calls assign
CallStep_shared_scratch(t) ==
  /\ Running(t)
  /\ calls' = [u \in Threads |->
                IF u = t THEN StepOf(calls[t])
                ELSE [calls[u] EXCEPT !.cleaned_phrase = StepOf(calls[t]).cleaned_phrase]]
  /\ UNCHANGED <<builderVars, dataVars, extraVars>>

\* thread t runs the next step of its call
CallStep(t) ==
  /\ Running(t)
  /\ calls' = [calls EXCEPT ![t] = StepOf(calls[t])]
  /\ UNCHANGED <<builderVars, dataVars, extraVars>>

InitConc ==
  /\ DataIdle
  /\ fn = "to_pattern_lines"
  /\ text = <<>>
  /\ lines = <<>>
  /\ idx = 1
  /\ pc = "idle"
  /\ in_string = <<>>
  /\ cleaned_phrase = <<>>
  /\ syllables = <<>>
  /\ weights = <<>>
  /\ patterns = <<>>
  /\ message = NoMessage
  /\ calls \in [Threads -> {NewCall(ls) : ls \in ConcInputs}]
  /\ ExtraIdle

NextConc == \E t \in Threads : CallStep(t)

SpecConc == InitConc /\ [][NextConc]_vars

\* ------------------------------------------------- catalog claims
\* the entry about to be loaded redefines, with another description, a
\* metre name that an earlier entry defined
Redefines ==
  /\ dpc = "load"
  /\ di <= Len(vrtta_data)
  /\ Entry.name \in DOMAIN all_data
  /\ all_data[Entry.name].description # Entry.description

Loaded == {j \in 1..Len(vrtta_data) : j < di}

\* the four lists of pada variants an entry is expanded to, by pada
PadaVariants(e) ==
  LET c == [i \in 1..Len(e.description) |-> CleanUpPattern(e.description[i])] IN
  IF Samatva(e) = "sama"
  THEN [i \in 1..4 |-> EndVariants(c[1])]
  ELSE IF Samatva(e) = "ardhasama"
  THEN [i \in 1..4 |-> EndVariants(c[IF i \in {1, 3} THEN 1 ELSE 2])]
  ELSE [i \in 1..4 |-> IF i \in {1, 3} THEN <<c[i]>> ELSE EndVariants(c[i])]

\* the full-verse and half-verse keys of an entry
FullKeys(e) ==
  LET v == PadaVariants(e) IN Range(Product4(v[1], v[2], v[3], v[4]))

HalfKeys(e, half) ==
  LET v == PadaVariants(e) IN Range(Product2(v[2 * half - 1], v[2 * half]))

\* metre m is indexed under key k of a half or pada index d for role r
HasRole(d, k, m, r) == k \in DOMAIN d /\ m \in DOMAIN d[k] /\ r \in d[k][m]

\* entry e is found in the three indices under all the keys of its expansion
IndexedInFull(e) ==
  \A k \in FullKeys(e) : k \in DOMAIN known_full_patterns /\ e.name \in known_full_patterns[k]

IndexedInHalf(e) ==
  \A h \in {1, 2} : \A k \in HalfKeys(e, h) : HasRole(known_half_patterns, k, e.name, h)

IndexedInPada(e) ==
  \A i \in 1..4 : \A k \in Range(PadaVariants(e)[i]) : HasRole(known_pada_patterns, k, e.name, i)

\* the only definition of its name loaded so far
SoleDefinition(j) == \A i \in Loaded : vrtta_data[i].name = vrtta_data[j].name => i = j

\* the pada keys of entry e carry no role but those of the padas they are variants of
NoOtherRole(e) ==
  \A i \in 1..4 : \A k \in Range(PadaVariants(e)[i]) :
    k \in DOMAIN known_pada_patterns /\ e.name \in DOMAIN known_pada_patterns[k]
      => known_pada_patterns[k][e.name] \subseteq {r \in 1..4 : k \in Range(PadaVariants(e)[r])}

LoadedOfKind(samatva) ==
  {j \in Loaded : Samatva(vrtta_data[j]) = samatva /\ RegexOrPattern(vrtta_data[j]) = "pattern"}

\* C12 as stated: a sama metre with cleaned pada pattern p has the two end
\* variants of p, is indexed under all 16 four-fold concatenations of them
\* as full-verse keys, under all 4 pairings as half-verse keys of both
\* halves, and under both variants as pada keys of padas 1, 2, 3 and 4.
C12_Original ==
  \A j \in LoadedOfKind("sama") :
    LET e == vrtta_data[j]
        p == CleanUpPattern(e.description[1])
    IN /\ PadaVariants(e)[1] = <<ButLast(p) \o <<"G">>, ButLast(p) \o <<"L">>>>
       /\ Cardinality(FullKeys(e)) = 16
       /\ Cardinality(HalfKeys(e, 1)) = 4
       /\ HalfKeys(e, 1) = HalfKeys(e, 2)
       /\ IndexedInHalf(e)
       /\ \A h \in {1, 2} : \A k \in HalfKeys(e, 1) : HasRole(known_half_patterns, k, e.name, h)
       /\ IndexedInPada(e)
       /\ IndexedInFull(e)

\* C13 as stated: an ardhasama metre has the 16 full-verse keys
\* odd + even + odd + even over the variants, the 4 half-verse keys
\* odd + even, and pada keys by role: odd variants for padas 1 and 3 only,
\* even variants for padas 2 and 4 only.
C13_Original ==
  \A j \in LoadedOfKind("ardhasama") :
    LET e == vrtta_data[j] IN
      /\ Cardinality(FullKeys(e)) = 16
      /\ Cardinality(HalfKeys(e, 1)) = 4
      /\ IndexedInHalf(e)
      /\ IndexedInPada(e)
      /\ SoleDefinition(j) => NoOtherRole(e)
      /\ IndexedInFull(e)

\* C14 as stated: a vishama metre has end variants for padas 2 and 4 only,
\* so 4 full-verse keys; its half-verse keys are those of padas 1, 2 for the
\* first half and of padas 3, 4 for the second; each pada pattern is
\* indexed under its own role and under no other.
C14_Original ==
  \A j \in LoadedOfKind("visama") :
    LET e == vrtta_data[j] IN
      /\ Cardinality(FullKeys(e)) = 4
      /\ IndexedInHalf(e)
      /\ SoleDefinition(j) =>
           \A h \in {1, 2} : \A k \in HalfKeys(e, h) :
             known_half_patterns[k][e.name] = {g \in {1, 2} : k \in HalfKeys(e, g)}
      /\ IndexedInPada(e)
      /\ SoleDefinition(j) => NoOtherRole(e)
      /\ IndexedInFull(e)

\* the keys of a half or pada index d that carry metre m
KeysOf(d, m) == {k \in DOMAIN d : m \in DOMAIN d[k]}

\* C15 as stated: every key indexed for a sama metre with a pada of n
\* symbols has length 4n in the full-verse index, 2n in the half-verse
\* index and n in the pada index, so that a verse with one syllable more
\* or less is not found for the metre.
C15_Original ==
  \A j \in LoadedOfKind("sama") :
    SoleDefinition(j) =>
      LET m == vrtta_data[j].name
          n == Len(CleanUpPattern(vrtta_data[j].description[1]))
      IN /\ \A k \in DOMAIN known_full_patterns :
              m \in known_full_patterns[k] => Len(k) = 4 * n
         /\ \A k \in KeysOf(known_half_patterns, m) : Len(k) = 2 * n
         /\ \A k \in KeysOf(known_pada_patterns, m) : Len(k) = n

\* C16 as stated: once InitializeData has completed, no later operation,
\* GetPattern, HtmlDescription and a repeated InitializeData included,
\* changes the pattern indices, the regex lists, pattern_for_metre or
\* all_data.
C16_Original ==
  [][dpc = "ready" => UNCHANGED indexVars]_vars

\* ------------------------------------------------- identification claims, continued
\* the metres that the lookups of any granularity find for the patterns
AnyHit(pl) ==
  lookup_full(Flatten(pl))
  \cup UNION {lookup_half(pl[i] \o pl[i + 1], h) :
                <<i, h>> \in {x \in {<<1, 1>>, <<3, 2>>} : x[1] + 1 <= Len(pl)}}
  \cup UNION {lookup_pada(pl[i], i) : i \in 1..Len(pl)}

\* C17: identification of well-formed patterns ends with a result and not
\* with an error: an empty pattern list gives the empty result {}, any
\* other list gives the three buckets, and they are all empty when no
\* lookup finds a metre for the patterns.
C17_NeverRaises ==
  Identified =>
    /\ id_input = <<>> => id_result = EmptyMap
    /\ id_input # <<>> => HasBuckets
    /\ (id_input # <<>> /\ AnyHit(id_input) = {}) =>
         \A b \in DOMAIN id_result : id_result[b] = {}

C17_Witness ==
  /\ Identified
  /\ Len(id_input) = 2
  /\ all_data # EmptyMap
  /\ AnyHit(id_input) = {}
  /\ HasBuckets
  /\ id_result["exact"] = {} /\ id_result["partial"] = {} /\ id_result["accidental"] = {}

\* C18: with exactly two pada patterns the half-verse index and rules are
\* queried with their concatenation for the first half; a metre found there
\* is exact when no other metre matches the concatenation as a full verse,
\* and is partial, not exact, when another metre does and it does not.
C18_TwoPatterns ==
  Identified /\ Len(id_input) = 2 =>
    LET s == id_input[1] \o id_input[2] IN
    \A m \in lookup_half(s, 1) :
      IF lookup_full(s) \ {m} = {}
      THEN m \in id_result["exact"]
      ELSE m \notin lookup_full(s) =>
             m \in id_result["partial"] /\ m \notin id_result["exact"]

C18_Witness ==
  /\ Identified
  /\ Len(id_input) = 2
  /\ \E m \in lookup_half(id_input[1] \o id_input[2], 1) :
       /\ m \in id_result["partial"]
       /\ lookup_full(id_input[1] \o id_input[2]) \ {m} # {}

\* ------------------------------------------------- concurrency claim
\* the first line of ls that cannot be parsed, 0 if there is none
RECURSIVE FirstUnparsable(_, _)
FirstUnparsable(ls, i) ==
  IF i > Len(ls) THEN 0
  ELSE IF ~LineParsable(ls[i]) THEN i
  ELSE FirstUnparsable(ls, i + 1)

\* C19: concurrent calls of to_pattern_lines, interleaved in any way, end
\* as each call ends when run alone: a call returns the patterns of its
\* lines, or raises at its first unparsable line, whatever the other call
\* does meanwhile.
C19_Reentrant ==
  \A t \in DOMAIN calls :
    LET c == calls[t] IN
      /\ c.pc = "returned" =>
           FirstUnparsable(c.lines, 1) = 0 /\ c.patterns = PatternsOf(c.lines, TRUE)
      /\ c.pc = "raised" =>
           /\ c.idx = FirstUnparsable(c.lines, 1)
           /\ c.message.input = c.lines[c.idx]
           /\ c.patterns = PatternsOf(SubSeq(c.lines, 1, c.idx - 1), TRUE)
      /\ c.pc = "weigh" => c.syllables = SyllablesOf(CleanPhrase(c.lines[c.idx]))

C19_Witness ==
  /\ DOMAIN calls = Threads
  /\ calls[1].pc = "scan"
  /\ calls[1].syllables # <<>>
  /\ calls[1].cleaned_phrase # <<>>
  /\ calls[2].pc = "scan"
  /\ calls[2].syllables # <<>>
  /\ calls[2].cleaned_phrase # <<>>
  /\ calls[1].cleaned_phrase # calls[2].cleaned_phrase

IndexedNames ==
  DOMAIN all_data \cup DOMAIN pattern_for_metre
  \cup UNION {known_full_patterns[k] : k \in DOMAIN known_full_patterns}
  \cup UNION {DOMAIN known_half_patterns[k] : k \in DOMAIN known_half_patterns}
  \cup UNION {DOMAIN known_pada_patterns[k] : k \in DOMAIN known_pada_patterns}

\* C20: a catalog entry without a pattern, that is a dict without
\* "pattern" or a TODO placeholder, is skipped: it is not among the entries
\* InitializeData loads, it puts its name in no index, and the load neither
\* fails at it nor stops before the entries that follow it.
C20_PlaceholderSkipped ==
  /\ vrtta_data = jsonToPy(sources)
  /\ Len(vrtta_data) = Cardinality({i \in 1..Len(sources) : sources[i] \notin Placeholders})
  /\ \A i \in 1..Len(vrtta_data) :
       Wrapped(vrtta_data[i], "no") \notin Placeholders
  /\ \A i \in 1..Len(sources) :
       (sources[i] \in Placeholders
        /\ \A j \in 1..Len(vrtta_data) : vrtta_data[j].name # sources[i].name)
         => sources[i].name \notin IndexedNames
  /\ dpc = "failed" => ~EntryPasses(Entry) /\ Wrapped(Entry, "no") \notin Placeholders
  /\ dpc = "ready" => \A j \in 1..Len(vrtta_data) : vrtta_data[j].name \in DOMAIN all_data

\* a placeholder comes first and the entry after it is loaded
C20_Witness ==
  /\ dpc = "ready"
  /\ Len(sources) = 2
  /\ sources[1] \in Placeholders
  /\ sources[1].kind = "str" /\ sources[1].description # <<>>
  /\ Len(vrtta_data) = 1
  /\ vrtta_data[1].name # sources[1].name
  /\ IndexedNames = {vrtta_data[1].name}
  /\ IndexedInPada(vrtta_data[1])

\* ================================================= reading the catalog files
\* InitializeData reads four files, one after the other, each by
\*   data = json.load(open(os.path.join(..., filename)))
\* The file object is the argument of json.load and is never closed by the
\* code: it is closed when the interpreter finalizes it.
CatalogFiles == <<"ganesh.json", "curated.json", "vrttaratnakara.json", "mishra.json">>

\* what a file can hold: nothing (no such file), text that is not JSON, an
\* object with a key other than comment and metres, an object without
\* metres, metres with an item that is not a pair, or a well-formed catalog
FileContents == {"missing", "not json", "bad keys", "no metres", "bad pair", "ok"}

InitFiles ==
  /\ DataIdle
  /\ fn = "to_pattern_lines"
  /\ text = <<>>
  /\ lines = <<>>
  /\ idx = 1
  /\ pc = "idle"
  /\ in_string = <<>>
  /\ cleaned_phrase = <<>>
  /\ syllables = <<>>
  /\ weights = <<>>
  /\ patterns = <<>>
  /\ message = NoMessage
  /\ calls = <<>>
  /\ file_data \in [Range(CatalogFiles) -> FileContents]
  /\ file_i = 1
  /\ open_files = {}
  /\ fpc = "open"
  /\ GenIdle

filename == CatalogFiles[file_i]

\* open(...): FileNotFoundError, or a new open file object
OpenFile ==
  /\ fpc = "open"
  /\ IF file_data[filename] = "missing"
     THEN fpc' = "failed" /\ UNCHANGED open_files
     ELSE fpc' = "json.load" /\ open_files' = open_files \cup {filename}
  /\ UNCHANGED <<file_data, file_i>>
  /\ UNCHANGED <<builderVars, dataVars, calls, genVars>>

\* json.load(fp): on text that is not JSON it raises, and the traceback of
\* the exception holds the frame of json.load with fp in it, so the file
\* stays open while the exception leaves the loader.  When it returns, the
\* last reference to the file object is dropped: a reference-counting
\* interpreter closes the file at once, another leaves it to the collector.
JsonLoad ==
  /\ fpc = "json.load"
  /\ IF file_data[filename] = "not json"
     THEN fpc' = "failed" /\ UNCHANGED open_files
     ELSE fpc' = "metres" /\ open_files' \in {open_files, open_files \ {filename}}
  /\ UNCHANGED <<file_data, file_i>>
  /\ UNCHANGED <<builderVars, dataVars, calls, genVars>>

\* the assertion on data.keys() and the loop over data['metres']; then the
\* next file, or the end of the reading
ReadMetres ==
  /\ fpc = "metres"
  /\ IF file_data[filename] \in {"bad keys", "no metres", "bad pair"}
     THEN fpc' = "failed" /\ UNCHANGED file_i
     ELSE IF file_i = Len(CatalogFiles)
     THEN fpc' = "done" /\ UNCHANGED file_i
     ELSE fpc' = "open" /\ file_i' = file_i + 1
  /\ UNCHANGED <<file_data, open_files>>
  /\ UNCHANGED <<builderVars, dataVars, calls, genVars>>

\* the interpreter finalizes a file object that the code no longer reads
Finalize ==
  /\ \E f \in open_files :
       /\ ~(fpc = "json.load" /\ f = filename)
       /\ open_files' = open_files \ {f}
  /\ UNCHANGED <<file_data, file_i, fpc>>
  /\ UNCHANGED <<builderVars, dataVars, calls, genVars>>

NextFiles ==
  \/ OpenFile
  \/ JsonLoad
  \/ ReadMetres
  \/ Finalize

SpecFiles == InitFiles /\ [][NextFiles]_vars

\* C21: when the reading of the catalog files is over, with all four files
\* read or with a failure in one of them, no catalog file is open.
C21_Original ==
  fpc \in {"done", "failed"} => open_files = {}

\* ================================================= known verses
\* C22: the four padas of Bhagavad-Gita 4.7 give four patterns of eight
\* symbols each, and the identifier, handed these four patterns, reports
\* Anustup (Sloka) in the exact bucket, whatever the catalog holds.
C22_Gita47 ==
  /\ Len(VersePatternLines[Gita47]) = 4
  /\ \A i \in 1..4 : Len(VersePatternLines[Gita47][i]) = 8
  /\ VersePatterns[Gita47] = VersePatternLines[Gita47]
  /\ (dpc = "identified" /\ id_input = VersePatternLines[Gita47]) =>
       /\ "exact" \in DOMAIN id_result
       /\ AnustupName \in id_result["exact"]

C22_Witness ==
  /\ dpc = "identified"
  /\ id_input = <<<<"L", "G", "L", "G", "L", "G", "G", "L">>,
                  <<"G", "G", "L", "L", "L", "G", "L", "L">>,
                  <<"G", "G", "G", "L", "L", "G", "G", "L">>,
                  <<"L", "G", "G", "G", "L", "G", "L", "G">>>>
  /\ id_result["exact"] = {AnustupName}
  /\ all_data # EmptyMap

\* ================================================= known phrases
\* C23: get_syllables of the docstring's phrase returns eight syllables:
\* bik, closed by the dead consonant that follows its vowel sign, and then
\* seven open syllables of one consonant with or without a vowel sign.
C23_Bikrama ==
  (in_string = Bikrama /\ pc = "weigh") =>
    /\ Len(Bikrama) = 15
    /\ syllables = <<<<"k", "i", "k", "h">>, <<"k">>, <<"k">>, <<"k", "I">>,
                     <<"k", "I">>, <<"k", "I">>, <<"k">>, <<"k", "I">>>>

C23_Witness ==
  /\ in_string = Bikrama
  /\ pc = "weigh"
  /\ Len(syllables) = 8
  /\ weights = <<<<"G">>, <<"L">>, <<"L">>, <<"G">>, <<"G">>, <<"G">>, <<"L">>, <<"G">>>>

\* C24: in the list get_syllables returns, no syllable that ends in a
\* virama is followed by a syllable that begins with an independent vowel:
\* the dead consonant is the onset of the syllable of the vowel.
C24_Original ==
  pc = "weigh" =>
    \A i \in 1..(Len(syllables) - 1) :
      ~ /\ syllables[i][Len(syllables[i])] = "h"
        /\ syllables[i + 1][1] \in PATTERN_INDEPENDENT_VOWEL

\* ================================================= termination of the scan
\* C25: an iteration of the loop of get_syllables raises, or takes at
\* least one character off cleaned_phrase and adds one syllable; the loop
\* is left when cleaned_phrase is empty, so the iterations of a call are at
\* most the characters of the cleaned line.
C25_ScanTerminates ==
  [][pc = "scan" =>
       \/ /\ pc' = "raised"
          /\ Len(cleaned_phrase) > 0
       \/ /\ pc' = "weigh"
          /\ Len(cleaned_phrase) = 0
          /\ Len(syllables) <= Len(CleanPhrase(in_string))
       \/ /\ pc' = "scan"
          /\ Len(cleaned_phrase') < Len(cleaned_phrase)
          /\ Len(syllables') = Len(syllables) + 1
          /\ Len(syllables') + Len(cleaned_phrase') <= Len(CleanPhrase(in_string))
    ]_vars

\* the last of the eight iterations over the docstring's phrase
C25_Witness ==
  /\ pc = "scan"
  /\ in_string = Bikrama
  /\ Len(syllables) = 8
  /\ cleaned_phrase = <<>>

\* ================================================= verification
\* the buckets of the last identification under normalized names
Normalized(bucket) ==
  {normalize_meter_name(m) :
     m \in IF bucket \in DOMAIN id_result THEN id_result[bucket] ELSE {}}

\* C26: verify_meter answers True exactly when the normalized expected name
\* is among the normalized exact matches, or is one of the five names and
\* among the normalized partial matches; a partial match of another name
\* alone gives False.
C26_VerifyMeter ==
  (dpc = "verified") =>
    LET e == answer.value.normalized_expected IN
    /\ answer.value.is_correct =
         \/ e \in Normalized("exact")
         \/ e \in meters_with_partial_as_exact /\ e \in Normalized("partial")
    /\ (e \notin meters_with_partial_as_exact /\ e \notin Normalized("exact"))
         => ~answer.value.is_correct

\* a partial match of indravajra alone is taken as correct
C26_Witness ==
  /\ dpc = "verified"
  /\ answer.value.normalized_expected = "indravajra"
  /\ "indravajra" \notin Normalized("exact")
  /\ "indravajra" \in Normalized("partial")
  /\ answer.value.is_correct

\* ================================================= generate_dataset
NumMeters == 7       \* the meters of _create_default_dataset
NumTopics == 15      \* its topics
MaxTasks == 107      \* largest num_tasks

\* _create_default_dataset: self.tasks = [], then a task for each meter and
\* each topic, meter by meter.  A task is held as its meter and its topic;
\* its difficulty, drawn at random, is not held.
DefaultTasks ==
  [n \in 1..(NumMeters * NumTopics) |->
     [meter |-> ((n - 1) \div NumTopics) + 1, topic |-> ((n - 1) % NumTopics) + 1]]

InitDataset ==
  /\ DataIdle
  /\ fn = "to_pattern_lines"
  /\ text = <<>>
  /\ lines = <<>>
  /\ idx = 1
  /\ pc = "idle"
  /\ in_string = <<>>
  /\ cleaned_phrase = <<>>
  /\ syllables = <<>>
  /\ weights = <<>>
  /\ patterns = <<>>
  /\ message = NoMessage
  /\ calls = <<>>
  /\ FilesIdle
  /\ num_tasks \in 0..MaxTasks
  /\ tasks = <<>>
  /\ saved = <<>>
  /\ gpc = "PoetryDataset"

\* dataset = PoetryDataset(): no path is given, the default tasks are made
NewDataset ==
  /\ gpc = "PoetryDataset"
  /\ tasks' = DefaultTasks
  /\ gpc' = "while"
  /\ UNCHANGED <<num_tasks, saved>>
  /\ UNCHANGED <<builderVars, dataVars, calls, fileVars>>

\* while len(dataset.tasks) < num_tasks:
WhileTest ==
  /\ gpc = "while"
  /\ gpc' = IF Len(tasks) < num_tasks THEN "create" ELSE "trim"
  /\ UNCHANGED <<num_tasks, tasks, saved>>
  /\ UNCHANGED <<builderVars, dataVars, calls, fileVars>>

\* the body of the loop: dataset._create_default_dataset(), which empties
\* self.tasks before it fills it
CreateDefaultDataset ==
  /\ gpc = "create"
  /\ tasks' = DefaultTasks
  /\ gpc' = "while"
  /\ UNCHANGED <<num_tasks, saved>>
  /\ UNCHANGED <<builderVars, dataVars, calls, fileVars>>

\* dataset.tasks = dataset.tasks[:num_tasks]
Trim ==
  /\ gpc = "trim"
  /\ tasks' = SubSeq(tasks, 1, IF num_tasks < Len(tasks) THEN num_tasks ELSE Len(tasks))
  /\ gpc' = "save"
  /\ UNCHANGED <<num_tasks, saved>>
  /\ UNCHANGED <<builderVars, dataVars, calls, fileVars>>

\* dataset.save_dataset(output_path)
SaveDataset ==
  /\ gpc = "save"
  /\ saved' = tasks
  /\ gpc' = "done"
  /\ UNCHANGED <<num_tasks, tasks>>
  /\ UNCHANGED <<builderVars, dataVars, calls, fileVars>>

NextDataset ==
  \/ NewDataset
  \/ WhileTest
  \/ CreateDefaultDataset
  \/ Trim
  \/ SaveDataset

\* the call runs on as long as it has a step to take
SpecDataset == InitDataset /\ [][NextDataset]_vars /\ WF_vars(NextDataset)

\* C27: generate_dataset comes to its end for every num_tasks, and the
\* dataset it has saved then holds num_tasks tasks.
C27_Original ==
  <>(gpc = "done" /\ Len(saved) = num_tasks)

\* ================================================= the rules of Anustup
\* strings to match against the rules: four blocks of eight symbols, each
\* all light, all heavy, with L G L or with L G G as symbols 5 to 7; and
\* strings of 0, 8, 16, 24, 31 and 33 symbols
AnustupProbes ==
  LET blocks == { <<"L", "L", "L", "L", "L", "L", "L", "L">>,
                  <<"G", "G", "G", "G", "G", "G", "G", "G">>,
                  <<"L", "G", "G", "L", "L", "G", "L", "G">>,
                  <<"G", "L", "G", "G", "L", "G", "G", "L">> }
      verses == {a \o b \o c \o d : a \in blocks, b \in blocks, c \in blocks, d \in blocks}
  IN verses
     \cup {SubSeq(v, 1, n) : v \in verses, n \in {0, 8, 16, 24, 31}}
     \cup {v \o <<x>> : v \in verses, x \in {"L", "G"}}

\* whether one of the full-verse regexes that _AddAnustup and
\* _AddAnustupExamples register matches the string
AnustupAccepts(s) ==
  \E i \in 1..Len(AnustupFull \o AnustupExamples) :
    RegexMatches((AnustupFull \o AnustupExamples)[i].regex, s)

\* the rules match a string exactly when it has 32 symbols of which 13 to
\* 15 and 29 to 31 are L G L
C28_UnionOnProbes ==
  \A s \in AnustupProbes :
    AnustupAccepts(s) <=>
      /\ Len(s) = 32
      /\ SubSeq(s, 13, 15) = <<"L", "G", "L">>
      /\ SubSeq(s, 29, 31) = <<"L", "G", "L">>

\* C28: once InitializeData has registered its rules, the full-verse
\* regexes held for Anustup (Sloka) are those of _AddAnustup and
\* _AddAnustupExamples, no full-verse pattern is held for it, and together
\* the regexes match a string over L and G exactly when it has 32 symbols
\* of which 13 to 15 and 29 to 31 are L G L.
C28_AnustupUnion ==
  dpc # "start" =>
    /\ {known_full_regexes[i].regex :
          i \in {j \in 1..Len(known_full_regexes) :
                   known_full_regexes[j].metre = AnustupName}}
         = {(AnustupFull \o AnustupExamples)[i].regex :
              i \in 1..Len(AnustupFull \o AnustupExamples)}
    /\ \A k \in DOMAIN known_full_patterns : AnustupName \notin known_full_patterns[k]
    /\ C28_UnionOnProbes

\* the catalog has added a regex of its own, and the verse of all light
\* syllables but for symbols 14 and 30 is matched
C28_Witness ==
  /\ dpc = "ready"
  /\ \E j \in 1..Len(known_full_regexes) : known_full_regexes[j].metre = "m1"
  /\ AnustupAccepts(<<"L", "L", "L", "L", "L", "L", "L", "L">>
                      \o <<"L", "G", "G", "L", "L", "G", "L", "G">>
                      \o <<"G", "G", "G", "G", "G", "G", "G", "G">>
                      \o <<"L", "G", "G", "L", "L", "G", "L", "G">>)

\* ================================================= the Arya rules
\* the strings a regex of factors matches
RECURSIVE Language(_)
Language(regex) ==
  IF regex = <<>> THEN {<<>>}
  ELSE {alt \o rest : alt \in Head(regex), rest \in Language(Tail(regex))}

\* verses the strict Arya regex matches: padas of the fewest and of the
\* most syllables that the pada regexes match
AryaProbes ==
  LET Extreme(regex, lo, hi) == {p \in Language(regex) : Len(p) \in {lo, hi}}
  IN {a \o b \o c \o d : a \in Extreme(pada_12_re, 6, 12), b \in Extreme(pada_18_re, 10, 17),
                         c \in Extreme(pada_12_re, 6, 12), d \in Extreme(pada_15_re, 8, 14)}

\* each match of the pada regexes has the morae of its name, or one fewer
\* and a last L, and is a loose pattern; the probes are matched by both
C29_PadaRules ==
  /\ \A p \in Language(pada_12_re) :
       MatraCount(p) = 12 /\ p \in AryaLoose[1]
  /\ \A p \in Language(pada_18_re) :
       /\ MatraCount(p) = 18 \/ (MatraCount(p) = 17 /\ p[Len(p)] = "L")
       /\ p \in AryaLoose[2]
  /\ \A p \in Language(pada_15_re) :
       /\ MatraCount(p) = 15 \/ (MatraCount(p) = 14 /\ p[Len(p)] = "L")
       /\ p \in AryaLoose[4]
  /\ \E p \in Language(pada_18_re) : MatraCount(p) = 17
  /\ \A v \in AryaProbes :
       /\ RegexMatches(AryaFamilyStrict[1].regex, v)
       /\ RegexMatches(AryaLoose, v)

\* C29: the regex registered for Arya is the gana regex of padas of 12,
\* 18, 12 and 15 morae; each match of a pada regex is among the loose
\* patterns of its pada, so each verse the gana regex matches is matched by
\* the loose schema.
C29_StrictWithinLoose ==
  dpc # "start" =>
    /\ \E i \in 1..Len(known_full_regexes) :
         /\ known_full_regexes[i].metre = "Arya"
         /\ known_full_regexes[i].regex = pada_12_re \o pada_18_re \o pada_12_re \o pada_15_re
    /\ \A i \in 1..Len(known_full_regexes) :
         known_full_regexes[i].metre = "Arya" =>
           known_full_regexes[i].regex = AryaFamilyStrict[1].regex
    /\ C29_PadaRules

C29_Witness ==
  /\ dpc = "ready"
  /\ all_data # EmptyMap
  /\ \E i \in 1..Len(known_full_regexes) : known_full_regexes[i].metre = "Arya"
  /\ \E v \in AryaProbes :
       /\ MatraCount(v) = 55
       /\ RegexMatches(AryaLoose, v)

\* ================================================= keys of the indices
\* C30: when InitializeData has loaded a catalog without a failed
\* assertion, every key of known_full_patterns, known_half_patterns and
\* known_pada_patterns is a non-empty string over L and G.
C30_Original ==
  dpc = "ready" =>
    \A k \in DOMAIN known_full_patterns \cup DOMAIN known_half_patterns
             \cup DOMAIN known_pada_patterns :
      k # <<>> /\ IsLG(k)

====
